---- MODULE Spec2Model ----
(***************************************************************************)
(* A model of the octo GitHub client library: reference parsing, display   *)
(* and resolution (src/repository/reference/mod.rs), the reference         *)
(* conveniences of the repository handle (src/repository/mod.rs) and the   *)
(* list-all pagination loops.  Strings are sequences of one-character      *)
(* strings, so that split, join and ends_with are computed, not assumed.   *)
(***************************************************************************)
EXTENDS Integers, Sequences, FiniteSets, TLC

VARIABLES
    raw,        \* try_parse: the reference string handed in
    parsed,     \* try_parse: its result
    shown,      \* Display of the parsed reference
    reparsed,   \* try_parse of the displayed string
    ppc,        \* position of the parse/display/parse pipeline
    refs,       \* server: ref name -> the object it points at
    tagobjs,    \* server: annotated tag sha -> the object it points at
    commits,    \* server: the commit shas it holds
    handle,     \* client: the HandleReference in hand
    pc,         \* client: position inside try_get_commit
    capsule,    \* try_get_commit: the object last deserialized
    visited,    \* try_get_commit: the HashSet of visited tag shas
    gets,       \* the requests issued by the current operation, in order
    response,   \* the response the last request received
    faulted,    \* whether the transport failed a request of this operation
    result,     \* the outcome of the last finished operation
    created,    \* the branch created by try_create_branch, until rewritten
    via,        \* the operation that returned the handle in hand
    listing,    \* list-all: which resource is listed
    pages,      \* server: the sizes of its first pages
    tail,       \* server: the size of every page after those
    prs,        \* server: every prs-th listed issue is a pull request (0: none)
    page,       \* list-all: the page counter
    collection, \* list-all: the items collected so far
    requests,   \* list-all: the requests issued, in order
    pgpc,       \* list-all: position of the loop
    pgresult,   \* list-all: what the operation returned
    sendpc,     \* send: position inside GitHubRequestBuilder::send
    buildable,  \* send: whether the request builds
    clonable,   \* send: whether the built request can be cloned
    attempts,   \* send: what each Client::execute of the request met, in order
    calls,      \* send: how often the retried closure has run
    sendresult, \* send: what send returned
    issues,     \* server: issue number -> the payload it serves for it
    inumber,    \* try_fetch (issue): the number asked for
    imet,       \* try_fetch (issue): the response the request received
    fetched,    \* try_fetch (issue): the deserialized Issue
    ipc,        \* try_fetch (issue): position
    iresult,    \* try_fetch (issue): what it returned
    accounts,   \* server: account name -> the payload of users/{name}
    aname,      \* from_name: the name asked for
    amet,       \* from_name: the response the request received
    decoded,    \* from_name: the deserialized User
    apc,        \* from_name: position
    aresult,    \* from_name: what it returned
    comments,   \* server: the numbers of the issue comments it holds
    sop,        \* conveniences: the operation called
    sarg,       \* conveniences: its argument
    smet,       \* conveniences: the response its request received
    somepc,     \* conveniences: position
    sanswer,    \* conveniences: what the operation returned
    mode,       \* tree entry: the mode integer to serialize
    mtext,      \* tree entry: the mode string, serialized or received
    mdecoded,   \* tree entry: what deserialize_mode made of the string
    mpc,        \* tree entry: position of the serialize/deserialize pipeline
    remote,     \* server: the organization's selected-actions object
    wpc,        \* allow list: each writer's position
    wop,        \* allow list: the operation each writer runs
    warg,       \* allow list: the patterns each writer was given
    wgot,       \* allow list: the object each writer fetched
    wput,       \* allow list: the body each writer PUT
    wres,       \* allow list: what each writer's operation returned
    heap,       \* handles: the Arc allocations and the handle each one holds
    compare,    \* handles: the Compare in hand, its base and head held by value
    value,      \* handles: a handle held by value, cloned out of its Arc
    hop,        \* handles: the operation called last
    hrecv,      \* handles: the receiver of that call
    hreq,       \* handles: the requests that call issued
    hres,       \* handles: what that call returned
    tissue,     \* issue thread: the number of the issue the handle names
    tcount,     \* issue thread: how many comments the server holds on that issue
    top,        \* issue thread: the operation called last
    treqs,      \* issue thread: the requests that call issued
    tres,       \* issue thread: what that call returned
    ctree,      \* server: the tree sha of each commit
    strees,     \* server: the trees it holds
    bbase,      \* tree creation: the sha of the base commit
    bentries,   \* tree creation: the entries given
    bpc,        \* tree creation: where try_create_with_base stands
    bcommit,    \* tree creation: the tree sha read from the commit's response
    btree,      \* tree creation: the sha of the Tree that was fetched
    breqs,      \* tree creation: the requests issued so far
    bres,       \* tree creation: what try_create_with_base returned
    roster,     \* team: the members of the team on the server, in the server's order
    pagesize,   \* team: how many items the server puts on a page when the request names no size
    teamop,     \* team: the operation called last
    teamarg,    \* team: the member that call asked about
    teamreqs,   \* team: the requests that call issued
    teamres     \* team: what that call returned

parseVars == <<raw, parsed, shown, reparsed, ppc>>

refVars ==
    <<refs, tagobjs, commits, handle, pc, capsule, visited, gets, response,
      faulted, result, created, via>>

pageVars == <<listing, pages, tail, prs, page, collection, requests, pgpc, pgresult>>

sendVars == <<sendpc, buildable, clonable, attempts, calls, sendresult>>

issueVars == <<issues, inumber, imet, fetched, ipc, iresult>>

accountVars == <<accounts, aname, amet, decoded, apc, aresult>>

someVars == <<comments, sop, sarg, smet, somepc, sanswer>>

modeVars == <<mode, mtext, mdecoded, mpc>>

allowVars == <<remote, wpc, wop, warg, wgot, wput, wres>>

handleVars == <<heap, compare, value, hop, hrecv, hreq, hres>>

threadVars == <<tissue, tcount, top, treqs, tres>>

treeVars == <<ctree, strees, bbase, bentries, bpc, bcommit, btree, breqs, bres>>

teamVars == <<roster, pagesize, teamop, teamarg, teamreqs, teamres>>

vars == <<parseVars, refVars, pageVars, sendVars, issueVars, accountVars, someVars, modeVars, allowVars, handleVars, threadVars, treeVars, teamVars>>

\* What the operations of one component leave alone.
notParse == <<refVars, pageVars, sendVars, issueVars, accountVars, someVars, modeVars, allowVars, handleVars, threadVars, treeVars, teamVars>>
notRef == <<parseVars, pageVars, sendVars, issueVars, accountVars, someVars, modeVars, allowVars, handleVars, threadVars, treeVars, teamVars>>
notPage == <<parseVars, refVars, sendVars, issueVars, accountVars, someVars, modeVars, allowVars, handleVars, threadVars, treeVars, teamVars>>
notSend == <<parseVars, refVars, pageVars, issueVars, accountVars, someVars, modeVars, allowVars, handleVars, threadVars, treeVars, teamVars>>
notIssue == <<parseVars, refVars, pageVars, sendVars, accountVars, someVars, modeVars, allowVars, handleVars, threadVars, treeVars, teamVars>>
notAccount == <<parseVars, refVars, pageVars, sendVars, issueVars, someVars, modeVars, allowVars, handleVars, threadVars, treeVars, teamVars>>
notSome == <<parseVars, refVars, pageVars, sendVars, issueVars, accountVars, modeVars, allowVars, handleVars, threadVars, treeVars, teamVars>>
notMode == <<parseVars, refVars, pageVars, sendVars, issueVars, accountVars, someVars, allowVars, handleVars, threadVars, treeVars, teamVars>>
notAllow == <<parseVars, refVars, pageVars, sendVars, issueVars, accountVars, someVars, modeVars, handleVars, threadVars, treeVars, teamVars>>
notHandle == <<parseVars, refVars, pageVars, sendVars, issueVars, accountVars, someVars, modeVars, allowVars, threadVars, treeVars, teamVars>>
notThread == <<parseVars, refVars, pageVars, sendVars, issueVars, accountVars, someVars, modeVars, allowVars, handleVars, treeVars, teamVars>>
notTree == <<parseVars, refVars, pageVars, sendVars, issueVars, accountVars, someVars, modeVars, allowVars, handleVars, threadVars, teamVars>>
notTeam == <<parseVars, refVars, pageVars, sendVars, issueVars, accountVars, someVars, modeVars, allowVars, handleVars, threadVars, treeVars>>

(***************************************************************************)
(* Strings                                                                 *)
(***************************************************************************)
S_refs  == <<"r", "e", "f", "s">>
S_heads == <<"h", "e", "a", "d", "s">>
S_tags  == <<"t", "a", "g", "s">>
S_pull  == <<"p", "u", "l", "l">>
S_slash == <<"/">>
S_empty == <<>>

\* str::split('/'): always at least one token; tokens hold no '/'.
RECURSIVE SplitFrom(_, _, _)
SplitFrom(s, i, cur) ==
    IF i > Len(s) THEN <<cur>>
    ELSE IF s[i] = "/" THEN <<cur>> \o SplitFrom(s, i + 1, <<>>)
    ELSE SplitFrom(s, i + 1, Append(cur, s[i]))

Split(s) == SplitFrom(s, 1, <<>>)

\* [&str]::join("/"): the empty slice joins to the empty string.
RECURSIVE JoinSlash(_)
JoinSlash(ts) ==
    IF Len(ts) = 0 THEN <<>>
    ELSE IF Len(ts) = 1 THEN ts[1]
    ELSE ts[1] \o S_slash \o JoinSlash(Tail(ts))

\* str::ends_with
EndsWith(s, suffix) ==
    /\ Len(suffix) <= Len(s)
    /\ SubSeq(s, Len(s) - Len(suffix) + 1, Len(s)) = suffix

StartsWith(s, prefix) ==
    /\ Len(prefix) <= Len(s)
    /\ SubSeq(s, 1, Len(prefix)) = prefix

Digits == <<"0", "1", "2", "3", "4", "5", "6", "7", "8", "9">>

IsDigit(c) == \E d \in 1..10 : Digits[d] = c

DigitVal(c) == (CHOOSE d \in 1..10 : Digits[d] = c) - 1

RECURSIVE DecimalValue(_)
DecimalValue(ds) ==
    IF Len(ds) = 0 THEN 0
    ELSE DecimalValue(SubSeq(ds, 1, Len(ds) - 1)) * 10 + DigitVal(ds[Len(ds)])

\* usize::from_str: an optional '+', then one or more decimal digits.  (The
\* tokens of the model are far shorter than the 20 digits usize overflows at.)
NumberBody(tok) == IF Len(tok) > 0 /\ tok[1] = "+" THEN Tail(tok) ELSE tok

IsNumber(tok) ==
    /\ Len(NumberBody(tok)) > 0
    /\ \A i \in 1..Len(NumberBody(tok)) : IsDigit(NumberBody(tok)[i])

NumberOf(tok) == DecimalValue(NumberBody(tok))

\* usize's Display: decimal, no sign, no leading zeros.
RECURSIVE NumToStr(_)
NumToStr(n) ==
    IF n < 10 THEN <<Digits[n + 1]>>
    ELSE NumToStr(n \div 10) \o <<Digits[(n % 10) + 1]>>

(***************************************************************************)
(* HandleReference::try_parse and Display                                  *)
(***************************************************************************)
Invalid(reference) == [kind |-> "Invalid", name |-> reference, issue |-> 0]

Branch(branch) == [kind |-> "Branch", name |-> branch, issue |-> 0]

Tag(tag) == [kind |-> "Tag", name |-> tag, issue |-> 0]

PullRequestUnchecked(reference, issue, branch) ==
    [kind |-> "PullRequest", name |-> branch,
     issue |-> IF IsNumber(issue) THEN NumberOf(issue) ELSE 0]

\* issue.parse().map_err(|_| Invalid)?
PullRequest(reference, issue, branch) ==
    IF IsNumber(issue)
    THEN [kind |-> "PullRequest", name |-> branch, issue |-> NumberOf(issue)]
    ELSE Invalid(reference)

\* The match of try_parse, arm by arm in source order; a rest pattern
\* (branch @ ..) also matches no segment at all.
try_parse(reference) ==
    LET t == Split(reference)
        n == Len(t)
    IN  IF n = 4 /\ t[1] = S_refs /\ t[2] = S_pull
            THEN PullRequest(reference, t[3], t[4])
        ELSE IF n = 3 /\ t[1] = S_pull
            THEN PullRequest(reference, t[2], t[3])
        ELSE IF n >= 3 /\ t[1] = S_refs /\ t[2] = S_pull
            THEN PullRequest(reference, t[3], JoinSlash(SubSeq(t, 4, n)))
        ELSE IF n >= 2 /\ t[1] = S_pull
            THEN PullRequest(reference, t[2], JoinSlash(SubSeq(t, 3, n)))
        ELSE IF n = 3 /\ t[1] = S_refs /\ t[2] = S_heads
            THEN Branch(t[3])
        ELSE IF n = 2 /\ t[1] = S_heads
            THEN Branch(t[2])
        ELSE IF n >= 2 /\ t[1] = S_refs /\ t[2] = S_heads
            THEN Branch(JoinSlash(SubSeq(t, 3, n)))
        ELSE IF n >= 1 /\ t[1] = S_heads
            THEN Branch(JoinSlash(SubSeq(t, 2, n)))
        ELSE IF n = 3 /\ t[1] = S_refs /\ t[2] = S_tags
            THEN Tag(t[3])
        ELSE IF n = 2 /\ t[1] = S_tags
            THEN Tag(t[2])
        ELSE IF n >= 2 /\ t[1] = S_refs /\ t[2] = S_tags
            THEN Tag(JoinSlash(SubSeq(t, 3, n)))
        ELSE IF n >= 1 /\ t[1] = S_tags
            THEN Tag(JoinSlash(SubSeq(t, 2, n)))
        ELSE Invalid(reference)

IsOk(r) == r.kind # "Invalid"

NoParse == [kind |-> "None", name |-> S_empty, issue |-> 0]

NoSendResult == [ok |-> FALSE, class |-> "", kind |-> "", code |-> 0, message |-> <<>>]

SendIdle ==
    /\ sendpc = "off"
    /\ buildable = TRUE
    /\ clonable = TRUE
    /\ attempts = <<>>
    /\ calls = 0
    /\ sendresult = NoSendResult

NoIssue == [kind |-> "None", number |-> 0]

NoIssueResult == [ok |-> FALSE, error |-> "", client |-> "", number |-> 0]

NoIssueResponse == [status |-> -1, payload |-> [pull_request |-> "absent", content |-> FALSE, number |-> 0]]

IssueIdle ==
    /\ issues = <<>>
    /\ inumber = 0
    /\ imet = NoIssueResponse
    /\ fetched = NoIssue
    /\ ipc = "off"
    /\ iresult = NoIssueResult

NoUser == [type |-> "None", login |-> ""]

NoAccountResponse == [status |-> -1, payload |-> [type |-> "None", login |-> "", complete |-> FALSE]]

NoAccountResult == [ok |-> FALSE, kind |-> "", name |-> "", error |-> "", client |-> "", account |-> NoUser]

AccountIdle ==
    /\ accounts = <<>>
    /\ aname = ""
    /\ amet = NoAccountResponse
    /\ decoded = NoUser
    /\ apc = "off"
    /\ aresult = NoAccountResult

NoAnswer == [ok |-> FALSE, value |-> "", ref |-> NoParse, error |-> "", client |-> ""]

SomeIdle ==
    /\ comments = {}
    /\ sop = "none"
    /\ sarg = <<>>
    /\ smet = [status |-> -1]
    /\ somepc = "off"
    /\ sanswer = NoAnswer

NoMode == [ok |-> FALSE, value |-> 0]

ModeIdle ==
    /\ mode = 0
    /\ mtext = <<>>
    /\ mdecoded = NoMode
    /\ mpc = "off"

NoAllowed == [verified |-> FALSE, native |-> FALSE, list |-> <<>>, present |-> FALSE]

AllowIdle ==
    /\ remote = NoAllowed
    /\ wpc = <<>>
    /\ wop = <<>>
    /\ warg = <<>>
    /\ wgot = <<>>
    /\ wput = <<>>
    /\ wres = <<>>

NoHandle == [kind |-> "none", id |-> "", weak |-> 0]

NoCompare == [present |-> FALSE, base |-> NoHandle, head |-> NoHandle]

NoReceiver == [handle |-> NoHandle, arc |-> 0]

NoReturn == [kind |-> "none", arc |-> 0]

HandleIdle ==
    /\ heap = <<>>
    /\ compare = NoCompare
    /\ value = NoHandle
    /\ hop = "none"
    /\ hrecv = NoReceiver
    /\ hreq = <<>>
    /\ hres = NoReturn

NoThreadResult == [ok |-> FALSE, value |-> 0, error |-> ""]

ThreadIdle ==
    /\ tissue = 0
    /\ tcount = 0
    /\ top = "none"
    /\ treqs = <<>>
    /\ tres = NoThreadResult

NoTreeResult == [ok |-> FALSE, sha |-> "", error |-> ""]

TreeIdle ==
    /\ ctree = <<>>
    /\ strees = {}
    /\ bbase = ""
    /\ bentries = <<>>
    /\ bpc = "off"
    /\ bcommit = ""
    /\ btree = ""
    /\ breqs = <<>>
    /\ bres = NoTreeResult

NoTeamResult == [ok |-> FALSE, value |-> <<>>, error |-> ""]

TeamIdle ==
    /\ roster = <<>>
    /\ pagesize = 0
    /\ teamop = "none"
    /\ teamarg = 0
    /\ teamreqs = <<>>
    /\ teamres = NoTeamResult

PageIdle ==
    /\ listing = "none"
    /\ pages = <<>>
    /\ tail = 0
    /\ prs = 0
    /\ page = 0
    /\ collection = <<>>
    /\ requests = <<>>
    /\ pgpc = "off"
    /\ pgresult = [ok |-> FALSE, items |-> <<>>]

ParseIdle ==
    /\ raw = S_empty
    /\ parsed = NoParse
    /\ shown = S_empty
    /\ reparsed = NoParse
    /\ ppc = "off"

DisplayTagAsHeads(r) ==
    IF r.kind = "PullRequest"
        THEN S_pull \o S_slash \o NumToStr(r.issue) \o S_slash \o r.name
    ELSE S_heads \o S_slash \o r.name

\* impl Display for HandleReference
Display(r) ==
    IF r.kind = "PullRequest"
        THEN S_pull \o S_slash \o NumToStr(r.issue) \o S_slash \o r.name
    ELSE IF r.kind = "Branch"
        THEN S_heads \o S_slash \o r.name
    ELSE S_tags \o S_slash \o r.name

(***************************************************************************)
(* The transport: Client::execute, GitHubRequestBuilder::send and          *)
(* GitHubResponse::json.  A response is the status the server answered     *)
(* with (0: the connection failed and there is no response) and its body.  *)
(***************************************************************************)
MaxTags == 3
MaxCommits == 1

TagShas == { <<"t", i>> : i \in 1..MaxTags }
CommitShas == { <<"c", i>> : i \in 1..MaxCommits }

\* CapsuleReference, #[serde(tag = "type")]
CapsuleCommit(sha) == [type |-> "commit", sha |-> sha]
CapsuleTag(sha) == [type |-> "tag", sha |-> sha]
NoObject == [type |-> "none", sha |-> S_empty]

Objects == { CapsuleTag(t) : t \in TagShas } \cup { CapsuleCommit(c) : c \in CommitShas }

NoBody == [wellformed |-> FALSE, name |-> S_empty, object |-> NoObject, sha |-> S_empty]
RefBody(name, object) == [wellformed |-> TRUE, name |-> name, object |-> object, sha |-> S_empty]
TagBody(object) == [wellformed |-> TRUE, name |-> S_empty, object |-> object, sha |-> S_empty]
CommitBody(sha) == [wellformed |-> TRUE, name |-> S_empty, object |-> NoObject, sha |-> sha]

Http(status, body) == [status |-> status, body |-> body]
NoResponse == Http(-1, NoBody)

\* What the transport may do to any request, whatever the server holds: the
\* connection fails, the server refuses or breaks, or the body is not the
\* JSON shape the caller deserializes.
FaultResponses == { Http(0, NoBody), Http(403, NoBody), Http(500, NoBody), Http(200, NoBody) }

ClientOk == [ok |-> TRUE, class |-> "", kind |-> "", code |-> 0]
ClientError(class, kind, code) == [ok |-> FALSE, class |-> class, kind |-> kind, code |-> code]

\* GitHubRequestBuilder::send
send(resp) ==
    IF resp.status = 0 THEN ClientError("Request", "Unavailable", 0)
    ELSE IF resp.status \in 200..299 THEN ClientOk
    ELSE IF resp.status \in {401, 403} THEN ClientError("Response", "Unauthorized", resp.status)
    ELSE IF resp.status = 404 THEN ClientError("Response", "Nothing", resp.status)
    ELSE IF resp.status = 422 THEN ClientError("Response", "Validation", resp.status)
    ELSE ClientError("Response", "Unhandled", resp.status)

\* GitHubResponse::json
json(resp) ==
    IF resp.body.wellformed THEN ClientOk ELSE ClientError("Response", "Malformed", 0)

\* .send()?.json()?
send_json(resp) == IF send(resp).ok THEN json(resp) ELSE send(resp)

(***************************************************************************)
(* The server, as the requests of the reference operations see it          *)
(***************************************************************************)
S_foo == <<"f", "o", "o">>
S_foobar == <<"f", "o", "o", "b", "a", "r">>
S_main == <<"m", "a", "i", "n">>
S_v == <<"v">>

RefName(short) == S_refs \o S_slash \o short

Held == DOMAIN refs

\* GET repos/{repository}/git/ref/{path}: the ref of that exact name when
\* there is one; failing that a ref the path is a prefix of (an ambiguous
\* short name); failing that 404.
RefLookup(path) ==
    IF RefName(path) \in Held
        THEN { Http(200, RefBody(RefName(path), refs[RefName(path)])) }
    ELSE IF \E n \in Held : StartsWith(n, RefName(path))
        THEN { Http(200, RefBody(n, refs[n])) : n \in { m \in Held : StartsWith(m, RefName(path)) } }
    ELSE { Http(404, NoBody) }

\* GET repos/{repository}/git/tags/{sha}
TagLookup(sha) ==
    IF sha \in DOMAIN tagobjs THEN { Http(200, TagBody(tagobjs[sha])) } ELSE { Http(404, NoBody) }

\* GET repos/{repository}/git/commits/{sha}
CommitLookup(sha) ==
    IF sha \in commits THEN { Http(200, CommitBody(sha)) } ELSE { Http(404, NoBody) }

ObjectOf(sha) == IF sha \in DOMAIN tagobjs THEN CapsuleTag(sha) ELSE CapsuleCommit(sha)

\* POST repos/{repository}/git/refs {ref, sha}: 201 and the new ref, or 422
\* when the name is taken or malformed or the object is not there.
CreateAccepted(name, sha) ==
    /\ name \notin Held
    /\ StartsWith(name, S_refs \o S_slash)
    /\ Len(Split(name)) >= 3
    /\ \A i \in 1..Len(Split(name)) : Split(name)[i] # S_empty
    /\ sha \in commits \cup DOMAIN tagobjs

CreateResponse(name, sha) ==
    IF CreateAccepted(name, sha) THEN Http(201, RefBody(name, ObjectOf(sha)))
    ELSE Http(422, NoBody)

(***************************************************************************)
(* Outcomes                                                                *)
(***************************************************************************)
Outcome(ok, error, reference, client, ref, sha) ==
    [ok |-> ok, error |-> error, reference |-> reference, client |-> client,
     ref |-> ref, sha |-> sha]

OkReference(ref) == Outcome(TRUE, "", S_empty, "", ref, S_empty)
OkCommit(sha) == Outcome(TRUE, "", S_empty, "", NoParse, sha)

\* ReferenceError::{Invalid, Nothing, Client}
ErrInvalid(reference) == Outcome(FALSE, "Invalid", reference, "", NoParse, S_empty)
ErrNothing(reference) == Outcome(FALSE, "Nothing", reference, "", NoParse, S_empty)
ErrClient(e) == Outcome(FALSE, "Client", S_empty, e.kind, NoParse, S_empty)

CircularTruncated(reference) == OkCommit(S_empty)

\* ReferenceError::Circular
ErrCircular(reference) == Outcome(FALSE, "Circular", reference, "", NoParse, S_empty)

\* CommitError::Nothing { commit }
ErrCommitNothing(sha) == Outcome(FALSE, "CommitNothing", S_empty, "", NoParse, sha)

\* HandleRepositoryError::InvalidBranch { name }
ErrInvalidBranch(name) == Outcome(FALSE, "InvalidBranch", name, "", NoParse, S_empty)

NoResult == [op |-> "none", arg |-> S_empty] @@ Outcome(FALSE, "", S_empty, "", NoParse, S_empty)

Finished(op, arg, outcome) == [op |-> op, arg |-> arg] @@ outcome

Request(method, resource, path) == [method |-> method, resource |-> resource, path |-> path]

(***************************************************************************)
(* HandleReference::try_fetch and try_create                               *)
(***************************************************************************)
ReferenceErrorAlwaysNothing(e, reference) == ErrNothing(reference)

\* match result { Err(Response(Nothing)) => Nothing, Err(error) => Client }
ReferenceErrorOf(e, reference) ==
    IF e.class = "Response" /\ e.kind = "Nothing" THEN ErrNothing(reference) ELSE ErrClient(e)

Contains(s, part) ==
    \E i \in 1..(Len(s) - Len(part) + 1) : SubSeq(s, i, i + Len(part) - 1) = part

NameMatchesAnywhere(name, reference) == Contains(name, reference)

\* if name.ends_with(reference) { Ok(parsed) } else { Err(Nothing) }
NameMatches(name, reference) == EndsWith(name, reference)

\* The part of try_fetch and of try_create after the request is sent.
Validated(reference, resp) ==
    IF ~send(resp).ok THEN ReferenceErrorOf(send(resp), reference)
    ELSE IF ~json(resp).ok THEN ErrClient(json(resp))
    ELSE IF NameMatches(resp.body.name, reference) THEN OkReference(try_parse(reference))
    ELSE ErrNothing(reference)

\* try_fetch: a reference that does not parse issues no request.
try_fetch(reference, resp) ==
    IF ~IsOk(try_parse(reference)) THEN ErrInvalid(reference) ELSE Validated(reference, resp)

FetchResponses(reference) ==
    IF IsOk(try_parse(reference))
    THEN RefLookup(Display(try_parse(reference))) \cup FaultResponses
    ELSE { NoResponse }

FetchRequests(reference, resp) ==
    IF resp = NoResponse THEN <<>>
    ELSE << Request("GET", "git/ref", Display(try_parse(reference))) >>

\* "ref": format!("refs/{parsed}")
PayloadRef(ref) == S_refs \o S_slash \o Display(ref)

(***************************************************************************)
(* The reference operations of HandleRepository                            *)
(***************************************************************************)
NoCreated == [name |-> S_empty, sha |-> S_empty]

Short(kind, name) == kind \o S_slash \o name

FetchInputs ==
    { Short(S_heads, S_foo), RefName(Short(S_heads, S_foo)), S_foo, S_heads,
      Short(S_tags, S_v), Short(S_heads, S_main) }

BranchInputs == { S_main, S_foo, Short(S_tags, S_v) }

CreateInputs == { S_main, S_foo, S_foobar }

WriterNames ==
    { RefName(Short(S_heads, S_foo)), RefName(Short(S_heads, S_foobar)),
      RefName(Short(S_heads, S_main)), RefName(Short(S_tags, S_v)) }

Without(f, n) == [m \in DOMAIN f \ {n} |-> f[m]]

RefIdle ==
    /\ refs = <<>>
    /\ tagobjs = <<>>
    /\ commits = {}
    /\ handle = NoParse
    /\ pc = "off"
    /\ capsule = NoObject
    /\ visited = {}
    /\ gets = <<>>
    /\ response = NoResponse
    /\ faulted = FALSE
    /\ result = NoResult
    /\ created = NoCreated
    /\ via = "none"

\* No operation is running and the last outcome has been handed to the caller.
Ready == pc = "idle" /\ result.op = "none"

\* The operation returns: its locals are dropped, the handle it gave is kept.
Return ==
    /\ pc = "idle"
    /\ result.op # "none"
    /\ result' = NoResult
    /\ gets' = <<>>
    /\ response' = NoResponse
    /\ faulted' = FALSE
    /\ capsule' = NoObject
    /\ visited' = {}
    /\ UNCHANGED <<refs, tagobjs, commits, handle, pc, created, via>>
    /\ UNCHANGED notRef

\* HandleRepository::try_get_reference: one try_fetch
TryGetReference ==
    /\ Ready
    /\ \E arg \in FetchInputs : \E resp \in FetchResponses(arg) :
        /\ response' = resp
        /\ gets' = FetchRequests(arg, resp)
        /\ faulted' = (resp \in FaultResponses)
        /\ result' = Finished("try_get_reference", arg, try_fetch(arg, resp))
        /\ handle' = IF try_fetch(arg, resp).ok THEN try_fetch(arg, resp).ref ELSE handle
        /\ via' = IF try_fetch(arg, resp).ok THEN "try_get_reference" ELSE via
    /\ UNCHANGED <<refs, tagobjs, commits, pc, capsule, visited, created>>
    /\ UNCHANGED notRef

BranchCandidateAsTag(branch) ==
    IF IsOk(try_parse(branch)) THEN try_parse(branch)
    ELSE try_parse(Short(S_tags, branch))

\* let candidate = match try_parse(branch) { Err(_) => try_parse(heads/branch)?, Ok(r) => r }
BranchCandidate(branch) ==
    IF IsOk(try_parse(branch)) THEN try_parse(branch)
    ELSE try_parse(Short(S_heads, branch))

\* match try_get_reference(candidate) { Ok(Branch) => Ok, _ => InvalidBranch }
try_get_branch(branch, resp) ==
    IF ~IsOk(BranchCandidate(branch)) THEN ErrInvalid(Short(S_heads, branch))
    ELSE IF /\ try_fetch(Display(BranchCandidate(branch)), resp).ok
            /\ try_fetch(Display(BranchCandidate(branch)), resp).ref.kind = "Branch"
        THEN try_fetch(Display(BranchCandidate(branch)), resp)
    ELSE ErrInvalidBranch(branch)

\* HandleRepository::try_get_branch
TryGetBranch ==
    /\ Ready
    /\ \E arg \in BranchInputs :
       \E resp \in (IF IsOk(BranchCandidate(arg))
                    THEN FetchResponses(Display(BranchCandidate(arg)))
                    ELSE { NoResponse }) :
        /\ response' = resp
        /\ gets' = IF resp = NoResponse THEN <<>>
                   ELSE FetchRequests(Display(BranchCandidate(arg)), resp)
        /\ faulted' = (resp \in FaultResponses)
        /\ result' = Finished("try_get_branch", arg, try_get_branch(arg, resp))
        /\ handle' = IF try_get_branch(arg, resp).ok THEN try_get_branch(arg, resp).ref
                     ELSE handle
        /\ via' = IF try_get_branch(arg, resp).ok THEN "try_get_branch" ELSE via
    /\ UNCHANGED <<refs, tagobjs, commits, pc, capsule, visited, created>>
    /\ UNCHANGED notRef

\* HandleReference::try_create
try_create(reference, resp) ==
    IF ~IsOk(try_parse(reference)) THEN ErrInvalid(reference) ELSE Validated(reference, resp)

\* if reference.is_branch() { Ok(reference) } else { Err(InvalidBranch) }
try_create_branch(branch, resp) ==
    IF try_create(Short(S_heads, branch), resp).ok
       /\ try_create(Short(S_heads, branch), resp).ref.kind # "Branch"
    THEN ErrInvalidBranch(branch)
    ELSE try_create(Short(S_heads, branch), resp)

\* HandleRepository::try_create_branch(branch, commit); the commit handle was
\* fetched earlier and may name a commit the server no longer holds.
TryCreateBranch ==
    /\ Ready
    /\ \E arg \in CreateInputs : \E sha \in CommitShas \cup { <<"c", 0>> } :
       \E resp \in { CreateResponse(PayloadRef(try_parse(Short(S_heads, arg))), sha) }
                   \cup FaultResponses :
        /\ response' = resp
        /\ gets' = << Request("POST", "git/refs", PayloadRef(try_parse(Short(S_heads, arg)))) >>
        /\ faulted' = (resp \in FaultResponses)
        /\ refs' = IF resp.status = 201
                   THEN (resp.body.name :> resp.body.object) @@ refs
                   ELSE refs
        /\ result' = Finished("try_create_branch", arg, try_create_branch(arg, resp))
        /\ handle' = IF try_create_branch(arg, resp).ok THEN try_create_branch(arg, resp).ref
                     ELSE handle
        /\ via' = IF try_create_branch(arg, resp).ok THEN "try_create_branch" ELSE via
        /\ created' = IF try_create_branch(arg, resp).ok
                      THEN [name |-> try_create_branch(arg, resp).ref.name, sha |-> sha]
                      ELSE created
    /\ UNCHANGED <<tagobjs, commits, pc, capsule, visited>>
    /\ UNCHANGED notRef

\* What another writer may point a ref at: a branch at a commit, the tag at
\* the head of the tag chain, the branch main at either.
TopTag == <<"t", MaxTags>>

WriterTargets(n) ==
    IF n = RefName(Short(S_heads, S_main)) THEN commits \cup {TopTag}
    ELSE IF n = RefName(Short(S_tags, S_v)) THEN {TopTag}
    ELSE { <<"c", 1>> }

\* Another writer of the same repository points a ref elsewhere or deletes
\* it, between two operations of this client or between two requests of one.
OtherWriter ==
    /\ result.op = "none"
    /\ pc \in {"idle", "loop"}
    /\ \E n \in WriterNames :
        \/ \E sha \in WriterTargets(n) : refs' = (n :> ObjectOf(sha)) @@ Without(refs, n)
        \/ n \in Held /\ refs' = Without(refs, n)
    /\ created' = NoCreated
    /\ UNCHANGED <<tagobjs, commits, handle, pc, capsule, visited, gets, response, faulted, result, via>>
    /\ UNCHANGED notRef

(***************************************************************************)
(* HandleReference::try_get_commit, one request per step                   *)
(***************************************************************************)
IsCommitObjectAlways(object) == TRUE

\* match object { CapsuleReference::Commit { sha } => .., CapsuleReference::Tag { ref sha } => .. }
IsCommitObject(object) == object.type = "commit"

IsVisitedNever(sha) == FALSE

\* visited.contains(sha)
IsVisited(sha) == sha \in visited

\* let mut capsule = client.get("repos/{repository}/git/ref/{self}")?.send()?.json()?
ResolveStart ==
    /\ Ready
    /\ handle # NoParse
    /\ \E resp \in RefLookup(Display(handle)) \cup FaultResponses :
        /\ response' = resp
        /\ faulted' = (resp \in FaultResponses)
        /\ gets' = << Request("GET", "git/ref", Display(handle)) >>
        /\ visited' = {}
        /\ IF send_json(resp).ok
           THEN /\ capsule' = resp.body.object
                /\ pc' = "loop"
                /\ result' = NoResult
           ELSE /\ capsule' = NoObject
                /\ pc' = "idle"
                /\ result' = Finished("try_get_commit", Display(handle), ErrClient(send_json(resp)))
    /\ UNCHANGED <<refs, tagobjs, commits, handle, created, via>>
    /\ UNCHANGED notRef

\* The Tag arm of the loop: Circular on a visited sha, else one more GET.
ResolveTag ==
    /\ pc = "loop"
    /\ ~IsCommitObject(capsule)
    /\ IF IsVisited(capsule.sha)
       THEN /\ result' = Finished("try_get_commit", Display(handle), ErrCircular(Display(handle)))
            /\ pc' = "idle"
            /\ UNCHANGED <<capsule, visited, gets, response, faulted>>
       ELSE \E resp \in TagLookup(capsule.sha) \cup FaultResponses :
            /\ visited' = visited \cup {capsule.sha}
            /\ response' = resp
            /\ faulted' = (faulted \/ resp \in FaultResponses)
            /\ gets' = Append(gets, Request("GET", "git/tags", capsule.sha))
            /\ IF send_json(resp).ok
               THEN /\ capsule' = resp.body.object
                    /\ UNCHANGED <<pc, result>>
               ELSE /\ capsule' = NoObject
                    /\ pc' = "idle"
                    /\ result' = Finished("try_get_commit", Display(handle), ErrClient(send_json(resp)))
    /\ UNCHANGED <<refs, tagobjs, commits, handle, created, via>>
    /\ UNCHANGED notRef

\* HandleCommit::try_fetch, as repository.try_get_commit(sha) calls it
commit_try_fetch(sha, resp) ==
    IF ~send(resp).ok
    THEN IF send(resp).class = "Response" /\ send(resp).kind = "Nothing"
         THEN ErrCommitNothing(sha)
         ELSE ErrClient(send(resp))
    ELSE IF ~json(resp).ok THEN ErrClient(json(resp))
    ELSE OkCommit(resp.body.sha)

\* The Commit arm of the loop: break sha, then repository.try_get_commit(sha).
ResolveCommit ==
    /\ pc = "loop"
    /\ IsCommitObject(capsule)
    /\ \E resp \in CommitLookup(capsule.sha) \cup FaultResponses :
        /\ response' = resp
        /\ faulted' = (faulted \/ resp \in FaultResponses)
        /\ gets' = Append(gets, Request("GET", "git/commits", capsule.sha))
        /\ result' = Finished("try_get_commit", Display(handle), commit_try_fetch(capsule.sha, resp))
    /\ pc' = "idle"
    /\ UNCHANGED <<refs, tagobjs, commits, handle, capsule, visited, created, via>>
    /\ UNCHANGED notRef

\* SpecResolve: one tag reference against every tag graph the server can hold.
InitResolve ==
    /\ TeamIdle
    /\ TreeIdle
    /\ ThreadIdle
    /\ HandleIdle
    /\ AllowIdle
    /\ ModeIdle
    /\ SomeIdle
    /\ AccountIdle
    /\ IssueIdle
    /\ SendIdle
    /\ ParseIdle
    /\ PageIdle
    /\ \E o \in Objects : refs = (RefName(Short(S_tags, S_v)) :> o)
    /\ tagobjs \in [TagShas -> Objects]
    /\ commits \in SUBSET CommitShas
    /\ handle = Tag(S_v)
    /\ pc = "idle"
    /\ capsule = NoObject
    /\ visited = {}
    /\ gets = <<>>
    /\ response = NoResponse
    /\ faulted = FALSE
    /\ result = NoResult
    /\ created = NoCreated
    /\ via = "none"

NextResolve == ResolveStart \/ ResolveTag \/ ResolveCommit \/ Return

SpecResolve == InitResolve /\ [][NextResolve]_vars

\* Every tag graph, with every commit on the server; a resolution that has
\* started goes on: each request is answered and the loop takes its next turn.
InitResolveFair == InitResolve /\ commits = CommitShas

SpecResolveFair ==
    InitResolveFair /\ [][NextResolve]_vars /\ WF_vars(ResolveTag) /\ WF_vars(ResolveCommit)

\* SpecRef: the reference operations against a server that starts with one
\* chain of annotated tags and no ref, and that another writer also writes.
InitRef ==
    /\ TeamIdle
    /\ TreeIdle
    /\ ThreadIdle
    /\ HandleIdle
    /\ AllowIdle
    /\ ModeIdle
    /\ SomeIdle
    /\ AccountIdle
    /\ IssueIdle
    /\ SendIdle
    /\ ParseIdle
    /\ PageIdle
    /\ refs = <<>>
    /\ tagobjs = [t \in TagShas |->
                    IF t[2] = 1 THEN CapsuleCommit(<<"c", 1>>) ELSE CapsuleTag(<<"t", t[2] - 1>>)]
    /\ commits = CommitShas
    /\ handle = NoParse
    /\ pc = "idle"
    /\ capsule = NoObject
    /\ visited = {}
    /\ gets = <<>>
    /\ response = NoResponse
    /\ faulted = FALSE
    /\ result = NoResult
    /\ created = NoCreated
    /\ via = "none"

NextRef ==
    \/ TryGetReference
    \/ TryGetBranch
    \/ TryCreateBranch
    \/ OtherWriter
    \/ ResolveStart
    \/ ResolveTag
    \/ ResolveCommit
    \/ Return

SpecRef == InitRef /\ [][NextRef]_vars

(***************************************************************************)
(* Operations that validate locally before any request: try_fetch,         *)
(* try_create, try_delete_branch, try_delete_tag                           *)
(***************************************************************************)
\* HandleRepositoryError::InvalidTag { name }
ErrInvalidTag(name) == Outcome(FALSE, "InvalidTag", name, "", NoParse, S_empty)

\* Ok(())
OkUnit == Outcome(TRUE, "", S_empty, "", NoParse, S_empty)

CreateReferenceInputs == { Short(S_heads, S_foo), Short(S_tags, S_v), S_foo, S_main }

\* DELETE repos/{repository}/git/refs/{self}
DeleteResponse(name) == IF name \in Held THEN Http(204, NoBody) ELSE Http(422, NoBody)

is_kind_any(ref, kind) == TRUE

\* HandleReference::is_branch, is_tag
is_kind(ref, kind) == ref.kind = kind

\* The answers a delete of `ref` that must be of `kind` can meet: none when
\* the reference is of another kind.
DeleteResponses(ref, kind) ==
    IF is_kind(ref, kind)
    THEN { DeleteResponse(RefName(Display(ref))) } \cup (FaultResponses \ { Http(200, NoBody) })
    ELSE { NoResponse }

\* HandleReference::try_delete: .delete(..)?.send()?; Ok(())
try_delete(resp) == IF send(resp).ok THEN OkUnit ELSE ErrClient(send(resp))

\* if branch.is_branch() { Ok(branch.try_delete()?) } else { Err(InvalidBranch) }
try_delete_branch(ref, resp) ==
    IF is_kind(ref, "Branch") THEN try_delete(resp) ELSE ErrInvalidBranch(Display(ref))

\* if tag.is_tag() { Ok(tag.try_delete()?) } else { Err(InvalidTag) }
try_delete_tag(ref, resp) ==
    IF is_kind(ref, "Tag") THEN try_delete(resp) ELSE ErrInvalidTag(Display(ref))

\* HandleRepository::try_create_reference: one try_create
TryCreateReference ==
    /\ Ready
    /\ \E arg \in CreateReferenceInputs : \E sha \in CommitShas :
       \E resp \in (IF IsOk(try_parse(arg))
                    THEN { CreateResponse(PayloadRef(try_parse(arg)), sha) } \cup FaultResponses
                    ELSE { NoResponse }) :
        /\ response' = resp
        /\ gets' = IF resp = NoResponse THEN <<>>
                   ELSE << Request("POST", "git/refs", PayloadRef(try_parse(arg))) >>
        /\ faulted' = (resp \in FaultResponses)
        /\ refs' = IF resp.status = 201
                   THEN (resp.body.name :> resp.body.object) @@ refs
                   ELSE refs
        /\ result' = Finished("try_create_reference", arg, try_create(arg, resp))
        /\ handle' = IF try_create(arg, resp).ok THEN try_create(arg, resp).ref ELSE handle
        /\ via' = IF try_create(arg, resp).ok THEN "try_create_reference" ELSE via
        /\ created' = IF try_create(arg, resp).ok
                      THEN [name |-> try_create(arg, resp).ref.name, sha |-> sha]
                      ELSE created
    /\ UNCHANGED <<tagobjs, commits, pc, capsule, visited>>
    /\ UNCHANGED notRef

\* The part the two deletes share: the request, if one is issued, and what
\* the server does with it.
Deleted(op, kind, outcome, resp) ==
    /\ response' = resp
    /\ gets' = IF resp = NoResponse THEN <<>>
               ELSE << Request("DELETE", "git/refs", Display(handle)) >>
    /\ faulted' = (resp \in FaultResponses)
    /\ refs' = IF resp.status = 204 THEN Without(refs, RefName(Display(handle))) ELSE refs
    /\ result' = Finished(op, Display(handle), outcome)
    /\ created' = IF resp.status = 204 THEN NoCreated ELSE created
    /\ UNCHANGED <<tagobjs, commits, handle, via, pc, capsule, visited>>
    /\ UNCHANGED notRef

\* HandleRepository::try_delete_branch, given the reference in hand
TryDeleteBranch ==
    /\ Ready
    /\ handle # NoParse
    /\ \E resp \in DeleteResponses(handle, "Branch") :
        Deleted("try_delete_branch", "Branch", try_delete_branch(handle, resp), resp)

\* HandleRepository::try_delete_tag, given the reference in hand
TryDeleteTag ==
    /\ Ready
    /\ handle # NoParse
    /\ \E resp \in DeleteResponses(handle, "Tag") :
        Deleted("try_delete_tag", "Tag", try_delete_tag(handle, resp), resp)

NextLocal ==
    \/ TryGetReference
    \/ TryCreateReference
    \/ TryDeleteBranch
    \/ TryDeleteTag
    \/ OtherWriter
    \/ Return

SpecLocal == InitRef /\ [][NextLocal]_vars

(***************************************************************************)
(* The list-all pagination loops: HandleRepository::try_fetch_all,         *)
(* HandleIssue::try_fetch_all, HandleTeam::try_fetch_all                   *)
(***************************************************************************)
PerPage == 100

MaxPages == 3

\* The model stops a loop that the server never ends after this many pages.
PageCap == MaxPages + 2

PageSizes == {0, 37, PerPage - 1, PerPage}

Listings == {"repositories", "issues", "teams"}

\* users/{owner}/repos, repos/{repository}/issues, orgs/{organization}/teams
Endpoint(l) ==
    IF l = "repositories" THEN "users/{owner}/repos"
    ELSE IF l = "issues" THEN "repos/{repository}/issues"
    ELSE "orgs/{organization}/teams"

\* The server's page n: its items are numbered within the page.
PageSize(n) == IF n <= Len(pages) THEN pages[n] ELSE tail

PageItems(n) == [i \in 1..PageSize(n) |-> <<n, i>>]

\* Issue::is_pull_request, for the item the server listed
is_pull_request(item) == prs # 0 /\ item[2] % prs = 0

IsPlainIssue(item) == ~is_pull_request(item)

\* for issue in collection { if issue.is_pull_request() { continue } .. }
PlainIssues(items) == SelectSeq(items, IsPlainIssue)

HandlesUnfiltered(l, items) == items

\* What the operation returns once the loop has ended: a handle per item,
\* for issues per item that is not a pull request.
Handles(l, items) == IF l = "issues" THEN PlainIssues(items) ELSE items

IsShortPageInclusive(n) == n <= PerPage

IsShortPageEmpty(n) == n = 0

\* if capsules.len() < 100 { break }
IsShortPage(n) == n < PerPage

\* let mut collection = Vec::new(); let mut page = 0;
InitPage ==
    /\ TeamIdle
    /\ TreeIdle
    /\ ThreadIdle
    /\ HandleIdle
    /\ AllowIdle
    /\ ModeIdle
    /\ SomeIdle
    /\ AccountIdle
    /\ IssueIdle
    /\ SendIdle
    /\ ParseIdle
    /\ RefIdle
    /\ listing \in Listings
    /\ pages \in UNION { [1..n -> PageSizes] : n \in 0..MaxPages }
    /\ tail \in {0, PerPage}
    /\ prs \in (IF listing = "issues" THEN {0, 1, 2} ELSE {0})
    /\ page = 0
    /\ collection = <<>>
    /\ requests = <<>>
    /\ pgpc = "loop"
    /\ pgresult = [ok |-> FALSE, items |-> <<>>]

\* One turn of the loop whose request is answered with the server's page.
FetchPage ==
    /\ pgpc = "loop"
    /\ page < PageCap
    /\ page' = page + 1
    /\ requests' = Append(requests, [endpoint |-> Endpoint(listing), per_page |-> PerPage, page |-> page + 1])
    /\ collection' = collection \o PageItems(page + 1)
    /\ IF IsShortPage(Len(PageItems(page + 1)))
       THEN /\ pgpc' = "done"
            /\ pgresult' = [ok |-> TRUE, items |-> Handles(listing, collection')]
       ELSE UNCHANGED <<pgpc, pgresult>>
    /\ UNCHANGED <<listing, pages, tail, prs>>
    /\ UNCHANGED notPage

\* One turn of the loop whose request fails (.send()? or .json()?): the
\* error is returned and what was collected is dropped.
FetchPageFails ==
    /\ pgpc = "loop"
    /\ page < PageCap
    /\ page' = page + 1
    /\ requests' = Append(requests, [endpoint |-> Endpoint(listing), per_page |-> PerPage, page |-> page + 1])
    /\ pgpc' = "failed"
    /\ pgresult' = [ok |-> FALSE, items |-> <<>>]
    /\ UNCHANGED <<listing, pages, tail, prs, collection>>
    /\ UNCHANGED notPage

NextPage == FetchPage \/ FetchPageFails

SpecPage == InitPage /\ [][NextPage]_vars

(***************************************************************************)
(* GitHubRequestBuilder::send, one run of the retried closure per step     *)
(***************************************************************************)
MaxCalls == 3

StatusCodes == {200, 201, 204, 299, 100, 304, 400, 401, 403, 404, 409, 422, 500, 503}

\* The body of an error response: not JSON, JSON without a message, JSON
\* with one.
ErrorBodies == {"malformed", "empty", "message"}

\* What Client::execute meets: status 0 is a failed execute (no response).
Met(status, body) == [status |-> status, body |-> body]

ExecuteOutcomes == { Met(0, "malformed") } \cup { Met(s, b) : s \in StatusCodes, b \in ErrorBodies }

\* let Capsule { message } = response.json().unwrap_or_default()
MessageOf(body) == IF body = "message" THEN << "m" >> ELSE <<>>

\* GitHubResponse::is_success
is_success(code) == code \in 200..299

SendOk(code) == [ok |-> TRUE, class |-> "", kind |-> "", code |-> code, message |-> <<>>]

SendError(class, kind, code, message) ==
    [ok |-> FALSE, class |-> class, kind |-> kind, code |-> code, message |-> message]

ResponseErrorForbiddenUnhandled(code, message) ==
    IF code = 401 THEN SendError("Response", "Unauthorized", code, message)
    ELSE IF code = 404 THEN SendError("Response", "Nothing", code, message)
    ELSE IF code = 422 THEN SendError("Response", "Validation", code, message)
    ELSE SendError("Response", "Unhandled", code, message)

\* match code { 401 | 403 => Unauthorized, 404 => Nothing, 422 => Validation, _ => Unhandled }
ResponseErrorOf(code, message) ==
    IF code \in {401, 403} THEN SendError("Response", "Unauthorized", code, message)
    ELSE IF code = 404 THEN SendError("Response", "Nothing", code, message)
    ELSE IF code = 422 THEN SendError("Response", "Validation", code, message)
    ELSE SendError("Response", "Unhandled", code, message)

\* if response.is_success() { Ok(response) } else { .. match code .. }
Classify(met) ==
    IF is_success(met.status) THEN SendOk(met.status)
    ELSE ResponseErrorOf(met.status, MessageOf(met.body))

IsExecuteErrorOrServerError(met) == met.status = 0 \/ met.status >= 500

\* Client::execute: self.client.execute(request).map_err(|_| Unavailable)
IsExecuteError(met) == met.status = 0

InitSend ==
    /\ TeamIdle
    /\ TreeIdle
    /\ ThreadIdle
    /\ HandleIdle
    /\ AllowIdle
    /\ ModeIdle
    /\ SomeIdle
    /\ AccountIdle
    /\ IssueIdle
    /\ ParseIdle
    /\ RefIdle
    /\ PageIdle
    /\ sendpc = "build"
    /\ buildable \in BOOLEAN
    /\ clonable \in BOOLEAN
    /\ attempts = <<>>
    /\ calls = 0
    /\ sendresult = NoSendResult

\* self.inner.build().map_err(|_| ClientRequestError::Build)?
Build ==
    /\ sendpc = "build"
    /\ IF buildable
       THEN sendpc' = "retry" /\ UNCHANGED sendresult
       ELSE sendpc' = "done" /\ sendresult' = SendError("Request", "Build", 0, <<>>)
    /\ UNCHANGED <<buildable, clonable, attempts, calls>>
    /\ UNCHANGED notSend

\* One run of the closure with a request that clones: client.execute(request),
\* an error of which is transient.  After a transient error the backoff policy
\* either allows another run or has run out, and then the error is returned.
Execute ==
    /\ sendpc = "retry"
    /\ clonable
    /\ calls < MaxCalls
    /\ calls' = calls + 1
    /\ \E met \in ExecuteOutcomes :
        /\ attempts' = Append(attempts, met)
        /\ IF IsExecuteError(met)
           THEN \E again \in { calls + 1 < MaxCalls, FALSE } :
                IF again THEN UNCHANGED <<sendpc, sendresult>>
                ELSE /\ sendpc' = "done"
                     /\ sendresult' = SendError("Request", "Unavailable", 0, <<>>)
           ELSE /\ sendpc' = "done"
                /\ sendresult' = Classify(met)
    /\ UNCHANGED <<buildable, clonable>>
    /\ UNCHANGED notSend

\* One run of the closure with a request that does not clone: no execute,
\* Err(transient(ClientRequestError::Clone)).
CloneFails ==
    /\ sendpc = "retry"
    /\ ~clonable
    /\ calls < MaxCalls
    /\ calls' = calls + 1
    /\ \E again \in { calls + 1 < MaxCalls, FALSE } :
        IF again THEN UNCHANGED <<sendpc, sendresult>>
        ELSE /\ sendpc' = "done"
             /\ sendresult' = SendError("Request", "Clone", 0, <<>>)
    /\ UNCHANGED <<buildable, clonable, attempts>>
    /\ UNCHANGED notSend

NextSend == Build \/ Execute \/ CloneFails

SpecSend == InitSend /\ [][NextSend]_vars

(***************************************************************************)
(* Issue deserialization (models/common/issue) and HandleIssue::try_fetch  *)
(***************************************************************************)
IssueNumbers == {7, 8}

\* The pull_request member of an issue payload: no such key, the key with
\* null, the key with an object, the key with some other JSON value.
PullRequestMembers == {"absent", "null", "object", "scalar"}

\* content: whether the remaining members deserialize as IssueContent.
IssuePayloads ==
    [pull_request : PullRequestMembers, content : BOOLEAN, number : IssueNumbers]

NoPayload == [pull_request |-> "absent", content |-> FALSE, number |-> 0]

\* pull_request: Option<CapsulePullRequest>: a missing key and null are
\* None, an object is Some.
OptionIsSome(member) == member = "object"

\* Whether Capsule::deserialize succeeds: CapsulePullRequest is a struct, so
\* a value that is neither null nor an object is an error.
CapsuleDeserializes(payload) == payload.content /\ payload.pull_request # "scalar"

\* impl Deserialize for Issue
DeserializeIssue(payload) ==
    IF ~CapsuleDeserializes(payload) THEN [kind |-> "Malformed", number |-> 0]
    ELSE IF OptionIsSome(payload.pull_request)
        THEN [kind |-> "PullRequest", number |-> payload.number]
    ELSE [kind |-> "Plain", number |-> payload.number]

Issue_is_pull_request_never(i) == FALSE

\* Issue::is_pull_request
Issue_is_pull_request(i) == i.kind = "PullRequest"

IssueResponse(status, payload) == [status |-> status, payload |-> payload]

\* GET repos/{repository}/issues/{number}
IssueLookup(n) ==
    IF n \in DOMAIN issues THEN IssueResponse(200, issues[n]) ELSE IssueResponse(404, NoPayload)

IssueFaults == { IssueResponse(0, NoPayload), IssueResponse(403, NoPayload), IssueResponse(500, NoPayload) }

IssueOk(n) == [ok |-> TRUE, error |-> "", client |-> "", number |-> n]

IssueErr(error, client, n) == [ok |-> FALSE, error |-> error, client |-> client, number |-> n]

\* HandleIssue::try_fetch after the request is sent
issue_try_fetch(n, resp) ==
    IF ~send(resp).ok THEN IssueErr("Client", send(resp).kind, 0)
    ELSE IF DeserializeIssue(resp.payload).kind = "Malformed" THEN IssueErr("Client", "Malformed", 0)
    ELSE IF Issue_is_pull_request(DeserializeIssue(resp.payload)) THEN IssueErr("Issue", "", n)
    ELSE IssueOk(n)

InitIssue ==
    /\ TeamIdle
    /\ TreeIdle
    /\ ThreadIdle
    /\ HandleIdle
    /\ AllowIdle
    /\ ModeIdle
    /\ SomeIdle
    /\ AccountIdle
    /\ ParseIdle
    /\ RefIdle
    /\ PageIdle
    /\ SendIdle
    /\ issues \in UNION { [ns -> IssuePayloads] : ns \in SUBSET IssueNumbers }
    /\ inumber = 0
    /\ imet = NoIssueResponse
    /\ fetched = NoIssue
    /\ ipc = "idle"
    /\ iresult = NoIssueResult

\* HandleIssue::try_fetch(repository, number)
FetchIssue ==
    /\ ipc = "idle"
    /\ \E n \in IssueNumbers : \E resp \in { IssueLookup(n) } \cup IssueFaults :
        /\ inumber' = n
        /\ imet' = resp
        /\ fetched' = IF send(resp).ok THEN DeserializeIssue(resp.payload) ELSE NoIssue
        /\ iresult' = issue_try_fetch(n, resp)
    /\ ipc' = "done"
    /\ UNCHANGED issues
    /\ UNCHANGED notIssue

\* The caller takes the result; the handle may fetch again.
IssueReturn ==
    /\ ipc = "done"
    /\ ipc' = "idle"
    /\ inumber' = 0
    /\ imet' = NoIssueResponse
    /\ fetched' = NoIssue
    /\ iresult' = NoIssueResult
    /\ UNCHANGED issues
    /\ UNCHANGED notIssue

NextIssue == FetchIssue \/ IssueReturn

SpecIssue == InitIssue /\ [][NextIssue]_vars

(***************************************************************************)
(* Account::from_name and the User model (models/common/user.rs)           *)
(***************************************************************************)
AccountNames == {"octocat", "github"}

\* The variants of User, #[serde(tag = "type")]
UserTypes == {"Organization", "Mannequin", "User", "Bot"}

\* The type member of a payload: a variant of User or something else.
PayloadTypes == UserTypes \cup {"Enterprise"}

\* complete: whether login and id are there with the right JSON types.
AccountPayloads == [type : PayloadTypes, login : AccountNames, complete : BOOLEAN]

NoAccountPayload == [type |-> "None", login |-> "", complete |-> FALSE]

\* #[derive(Deserialize)] for User
DeserializeUser(payload) ==
    IF payload.type \in UserTypes /\ payload.complete
    THEN [type |-> payload.type, login |-> payload.login]
    ELSE [type |-> "Malformed", login |-> ""]

AccountResponse(status, payload) == [status |-> status, payload |-> payload]

\* GET users/{name}
AccountLookup(name) ==
    IF name \in DOMAIN accounts THEN AccountResponse(200, accounts[name])
    ELSE AccountResponse(404, NoAccountPayload)

AccountFaults ==
    { AccountResponse(0, NoAccountPayload), AccountResponse(403, NoAccountPayload),
      AccountResponse(500, NoAccountPayload) }

AccountOk(kind, name) ==
    [ok |-> TRUE, kind |-> kind, name |-> name, error |-> "", client |-> "", account |-> NoUser]

AccountErr(error, client, account) ==
    [ok |-> FALSE, kind |-> "", name |-> "", error |-> error, client |-> client, account |-> account]

AccountOfUserDegrading(user) ==
    IF user.type = "Organization" THEN AccountOk("Organization", user.login)
    ELSE AccountOk("User", user.login)

\* match account { User::Organization => .., User::User => .., _ => Err(Unsupported { account }) }
AccountOfUser(user) ==
    IF user.type = "Organization" THEN AccountOk("Organization", user.login)
    ELSE IF user.type = "User" THEN AccountOk("User", user.login)
    ELSE AccountErr("Unsupported", "", user)

\* Account::from_name after the request is sent
from_name(resp) ==
    IF ~send(resp).ok THEN AccountErr("Client", send(resp).kind, NoUser)
    ELSE IF DeserializeUser(resp.payload).type = "Malformed" THEN AccountErr("Client", "Malformed", NoUser)
    ELSE AccountOfUser(DeserializeUser(resp.payload))

InitAccount ==
    /\ TeamIdle
    /\ TreeIdle
    /\ ThreadIdle
    /\ HandleIdle
    /\ AllowIdle
    /\ ModeIdle
    /\ SomeIdle
    /\ ParseIdle
    /\ RefIdle
    /\ PageIdle
    /\ SendIdle
    /\ IssueIdle
    /\ accounts \in UNION { [ns -> AccountPayloads] : ns \in SUBSET AccountNames }
    /\ aname = ""
    /\ amet = NoAccountResponse
    /\ decoded = NoUser
    /\ apc = "idle"
    /\ aresult = NoAccountResult

\* Account::from_name(client, name)
FromName ==
    /\ apc = "idle"
    /\ \E name \in AccountNames : \E resp \in { AccountLookup(name) } \cup AccountFaults :
        /\ aname' = name
        /\ amet' = resp
        /\ decoded' = IF send(resp).ok THEN DeserializeUser(resp.payload) ELSE NoUser
        /\ aresult' = from_name(resp)
    /\ apc' = "done"
    /\ UNCHANGED accounts
    /\ UNCHANGED notAccount

\* The caller takes the result; the client may resolve another name.
AccountReturn ==
    /\ apc = "done"
    /\ apc' = "idle"
    /\ aname' = ""
    /\ amet' = NoAccountResponse
    /\ decoded' = NoUser
    /\ aresult' = NoAccountResult
    /\ UNCHANGED accounts
    /\ UNCHANGED notAccount

NextAccount == FromName \/ AccountReturn

SpecAccount == InitAccount /\ [][NextAccount]_vars

(***************************************************************************)
(* The absence conveniences: try_get_some_reference/branch/tag,            *)
(* try_has_reference/branch/tag, try_has_comment, try_has_commit           *)
(***************************************************************************)
CommentNumbers == {1, 2}

AnsSome(ref) == [ok |-> TRUE, value |-> "Some", ref |-> ref, error |-> "", client |-> ""]
AnsNone == [ok |-> TRUE, value |-> "None", ref |-> NoParse, error |-> "", client |-> ""]
AnsBool(b) ==
    [ok |-> TRUE, value |-> (IF b THEN "true" ELSE "false"), ref |-> NoParse,
     error |-> "", client |-> ""]
AnsErr(error, client) ==
    [ok |-> FALSE, value |-> "", ref |-> NoParse, error |-> error, client |-> client]

\* Option::is_some, through the ? of try_has_reference/branch/tag
is_some(answer) == IF answer.ok THEN AnsBool(answer.value = "Some") ELSE answer

IsNothingOrAnyError(outcome) == ~outcome.ok

\* Err(ReferenceError::Nothing { .. }) / Err(IssueCommentError::Nothing { .. })
IsNothing(outcome) == ~outcome.ok /\ outcome.error = "Nothing"

\* HandleRepository::try_get_some_reference
try_get_some_reference(reference, resp) ==
    IF IsNothing(try_fetch(reference, resp)) THEN AnsNone
    ELSE IF ~try_fetch(reference, resp).ok
        THEN AnsErr(try_fetch(reference, resp).error, try_fetch(reference, resp).client)
    ELSE AnsSome(try_fetch(reference, resp).ref)

\* let candidate = match try_parse(tag) { Ok(r) => r, _ => try_parse(tags/tag)? }
TagCandidate(tag) ==
    IF IsOk(try_parse(tag)) THEN try_parse(tag)
    ELSE try_parse(Short(S_tags, tag))

\* HandleRepository::try_get_some_branch
try_get_some_branch(branch, resp) ==
    IF ~IsOk(BranchCandidate(branch)) THEN AnsErr("Invalid", "")
    ELSE IF ~try_get_some_reference(Display(BranchCandidate(branch)), resp).ok
        THEN try_get_some_reference(Display(BranchCandidate(branch)), resp)
    ELSE IF try_get_some_reference(Display(BranchCandidate(branch)), resp).value = "None"
        THEN AnsNone
    ELSE IF try_get_some_reference(Display(BranchCandidate(branch)), resp).ref.kind = "Branch"
        THEN try_get_some_reference(Display(BranchCandidate(branch)), resp)
    ELSE AnsErr("InvalidBranch", "")

\* HandleRepository::try_get_some_tag
try_get_some_tag(tag, resp) ==
    IF ~IsOk(TagCandidate(tag)) THEN AnsErr("Invalid", "")
    ELSE IF ~try_get_some_reference(Display(TagCandidate(tag)), resp).ok
        THEN try_get_some_reference(Display(TagCandidate(tag)), resp)
    ELSE IF try_get_some_reference(Display(TagCandidate(tag)), resp).value = "None"
        THEN AnsNone
    ELSE IF try_get_some_reference(Display(TagCandidate(tag)), resp).ref.kind = "Tag"
        THEN try_get_some_reference(Display(TagCandidate(tag)), resp)
    ELSE AnsErr("InvalidTag", "")

CommentBody == [wellformed |-> TRUE, name |-> S_empty, object |-> NoObject, sha |-> S_empty]

\* GET repos/{repository}/issues/comments/{number}
CommentLookup(number) ==
    IF number \in comments THEN { Http(200, CommentBody) } ELSE { Http(404, NoBody) }

\* HandleIssueComment::try_fetch after the request is sent
comment_try_fetch(number, resp) ==
    IF ~send(resp).ok
    THEN IF send(resp).class = "Response" /\ send(resp).kind = "Nothing"
         THEN [ok |-> FALSE, error |-> "Nothing", client |-> ""]
         ELSE [ok |-> FALSE, error |-> "Client", client |-> send(resp).kind]
    ELSE IF ~json(resp).ok THEN [ok |-> FALSE, error |-> "Client", client |-> json(resp).kind]
    ELSE [ok |-> TRUE, error |-> "", client |-> ""]

\* HandleIssue::try_has_comment
try_has_comment(number, resp) ==
    IF IsNothing(comment_try_fetch(number, resp)) THEN AnsBool(FALSE)
    ELSE IF ~comment_try_fetch(number, resp).ok
        THEN AnsErr(comment_try_fetch(number, resp).error, comment_try_fetch(number, resp).client)
    ELSE AnsBool(TRUE)

\* Err(CommitError::Client(ClientError::Response(ClientResponseError::Nothing { .. })))
IsClientNothing(outcome) == ~outcome.ok /\ outcome.error = "Client" /\ outcome.client = "Nothing"

\* HandleRepository::try_has_commit
try_has_commit(sha, resp) ==
    IF IsClientNothing(commit_try_fetch(sha, resp)) THEN AnsBool(FALSE)
    ELSE IF ~commit_try_fetch(sha, resp).ok
        THEN AnsErr(commit_try_fetch(sha, resp).error, commit_try_fetch(sha, resp).client)
    ELSE AnsBool(TRUE)

TagInputs == { S_v, S_foo, Short(S_heads, S_main) }

CommitInputs == CommitShas \cup { <<"c", 0>> }

\* What one reference request of a convenience may receive.
SomeResponses(candidate) ==
    IF IsOk(candidate) THEN RefLookup(Display(candidate)) \cup FaultResponses
    ELSE { NoResponse }

InitSome ==
    /\ TeamIdle
    /\ TreeIdle
    /\ ThreadIdle
    /\ HandleIdle
    /\ AllowIdle
    /\ ModeIdle
    /\ ParseIdle
    /\ PageIdle
    /\ SendIdle
    /\ IssueIdle
    /\ AccountIdle
    /\ refs \in UNION { [ns -> { CapsuleCommit(<<"c", 1>>) }] : ns \in SUBSET WriterNames }
    /\ tagobjs = <<>>
    /\ commits \in SUBSET CommitShas
    /\ handle = NoParse
    /\ pc = "off"
    /\ capsule = NoObject
    /\ visited = {}
    /\ gets = <<>>
    /\ response = NoResponse
    /\ faulted = FALSE
    /\ result = NoResult
    /\ created = NoCreated
    /\ via = "none"
    /\ comments \in SUBSET CommentNumbers
    /\ sop = "none"
    /\ sarg = <<>>
    /\ smet = NoResponse
    /\ somepc = "idle"
    /\ sanswer = NoAnswer

\* The handle takes one call at a time; Answer records the call and what it
\* returned.
Answer(op, arg, resp, answer) ==
    /\ sop' = op
    /\ sarg' = arg
    /\ smet' = resp
    /\ sanswer' = answer
    /\ somepc' = "done"
    /\ UNCHANGED comments
    /\ UNCHANGED notSome

TryGetSomeReference ==
    /\ somepc = "idle"
    /\ \E arg \in FetchInputs : \E resp \in SomeResponses(try_parse(arg)) :
            Answer("try_get_some_reference", arg, resp, try_get_some_reference(arg, resp))

TryHasReference ==
    /\ somepc = "idle"
    /\ \E arg \in FetchInputs : \E resp \in SomeResponses(try_parse(arg)) :
            Answer("try_has_reference", arg, resp, is_some(try_get_some_reference(arg, resp)))

TryGetSomeBranch ==
    /\ somepc = "idle"
    /\ \E arg \in BranchInputs : \E resp \in SomeResponses(BranchCandidate(arg)) :
            Answer("try_get_some_branch", arg, resp, try_get_some_branch(arg, resp))

TryHasBranch ==
    /\ somepc = "idle"
    /\ \E arg \in BranchInputs : \E resp \in SomeResponses(BranchCandidate(arg)) :
            Answer("try_has_branch", arg, resp, is_some(try_get_some_branch(arg, resp)))

TryGetSomeTag ==
    /\ somepc = "idle"
    /\ \E arg \in TagInputs : \E resp \in SomeResponses(TagCandidate(arg)) :
            Answer("try_get_some_tag", arg, resp, try_get_some_tag(arg, resp))

TryHasTag ==
    /\ somepc = "idle"
    /\ \E arg \in TagInputs : \E resp \in SomeResponses(TagCandidate(arg)) :
            Answer("try_has_tag", arg, resp, is_some(try_get_some_tag(arg, resp)))

TryHasComment ==
    /\ somepc = "idle"
    /\ \E number \in CommentNumbers : \E resp \in CommentLookup(number) \cup FaultResponses :
            Answer("try_has_comment", number, resp, try_has_comment(number, resp))

TryHasCommit ==
    /\ somepc = "idle"
    /\ \E sha \in CommitInputs : \E resp \in CommitLookup(sha) \cup FaultResponses :
            Answer("try_has_commit", sha, resp, try_has_commit(sha, resp))

\* The caller takes the answer; the handle may be asked again.
SomeReturn ==
    /\ somepc = "done"
    /\ somepc' = "idle"
    /\ sop' = "none"
    /\ sarg' = <<>>
    /\ smet' = NoResponse
    /\ sanswer' = NoAnswer
    /\ UNCHANGED comments
    /\ UNCHANGED notSome

NextSome ==
    \/ TryGetSomeReference
    \/ TryHasReference
    \/ TryGetSomeBranch
    \/ TryHasBranch
    \/ TryGetSomeTag
    \/ TryHasTag
    \/ TryHasComment
    \/ TryHasCommit
    \/ SomeReturn

SpecSome == InitSome /\ [][NextSome]_vars

(***************************************************************************)
(* TreeEntry modes: TreeEntryMode::to_mode, serialize_mode and             *)
(* deserialize_mode (src/repository/tree/mod.rs)                           *)
(***************************************************************************)
MaxModeChars == 3

TreeEntryModes == {"File", "Executable", "Directory", "Commit", "Link"}

\* TreeEntryMode::to_mode: 0o100644, 0o100755, 0o040000, 0o160000, 0o120000
to_mode(m) ==
    CASE m = "File" -> 33188
      [] m = "Executable" -> 33261
      [] m = "Directory" -> 16384
      [] m = "Commit" -> 57344
      [] m = "Link" -> 40960

OctalDigits == <<"0", "1", "2", "3", "4", "5", "6", "7">>

IsOctalDigit(c) == \E i \in 1..8 : OctalDigits[i] = c

OctalVal(c) == (CHOOSE i \in 1..8 : OctalDigits[i] = c) - 1

RECURSIVE ToOctal(_)
ToOctal(n) == IF n < 8 THEN << OctalDigits[n + 1] >> ELSE Append(ToOctal(n \div 8), OctalDigits[(n % 8) + 1])

\* format!("{mode:06o}"): octal, padded with zeros on the left to 6 characters
serialize_mode(n) ==
    IF Len(ToOctal(n)) >= 6 THEN ToOctal(n)
    ELSE [i \in 1..(6 - Len(ToOctal(n))) |-> "0"] \o ToOctal(n)

\* The digits of from_str_radix(_, 8), most significant first, with the
\* overflow check of u32: v * 8 + d exceeds 2^32 - 1 exactly when v >= 2^29.
\* (Results from 2^31 up are beyond the integers of the model checker; no
\* string of the model decodes to one.)
RECURSIVE OctalValue(_)
OctalValue(ds) ==
    IF Len(ds) = 0 THEN [ok |-> TRUE, value |-> 0]
    ELSE IF ~IsOctalDigit(ds[Len(ds)]) \/ ~OctalValue(SubSeq(ds, 1, Len(ds) - 1)).ok
        THEN NoMode
    ELSE IF OctalValue(SubSeq(ds, 1, Len(ds) - 1)).value >= 536870912
        THEN NoMode
    ELSE [ok |-> TRUE,
          value |-> OctalValue(SubSeq(ds, 1, Len(ds) - 1)).value * 8 + OctalVal(ds[Len(ds)])]

deserialize_mode_or_zero(s) ==
    IF Len(s) > 0 /\ OctalValue(s).ok THEN OctalValue(s) ELSE [ok |-> TRUE, value |-> 0]

\* u32::from_str_radix(string, 8): an empty string fails, one leading '+' is
\* skipped, every remaining character has to be an octal digit.
deserialize_mode(s) ==
    IF Len(s) = 0 THEN NoMode
    ELSE IF s[1] = "+"
        THEN (IF Len(s) = 1 THEN NoMode ELSE OctalValue(SubSeq(s, 2, Len(s))))
    ELSE OctalValue(s)

\* The modes a TreeEntry may hold besides those of TreeEntryMode: mode is a u32.
OtherModes == {0, 7, 8, 511, 262143, 262144, 2147483647}

ModeChars == {"0", "4", "7", "8", "+", "-", "x"}

\* The mode strings a tree response may carry.
ModeStrings ==
    UNION { [1..n -> ModeChars] : n \in 0..MaxModeChars }
        \cup { [i \in 1..11 |-> "7"], <<"1">> \o [i \in 1..10 |-> "7"] }

InitMode ==
    /\ TeamIdle
    /\ TreeIdle
    /\ ThreadIdle
    /\ HandleIdle
    /\ AllowIdle
    /\ ParseIdle
    /\ RefIdle
    /\ PageIdle
    /\ SendIdle
    /\ IssueIdle
    /\ AccountIdle
    /\ SomeIdle
    /\ mdecoded = NoMode
    /\ \/ /\ mpc = "serialize"
          /\ mode \in { to_mode(m) : m \in TreeEntryModes } \cup OtherModes
          /\ mtext = <<>>
       \/ /\ mpc = "received"
          /\ mode = 0
          /\ mtext \in ModeStrings

\* serialize_mode, when a TreeEntry is sent
SerializeMode ==
    /\ mpc = "serialize"
    /\ mtext' = serialize_mode(mode)
    /\ mpc' = "serialized"
    /\ UNCHANGED <<mode, mdecoded>>
    /\ UNCHANGED notMode

\* deserialize_mode, when a TreeEntry is received
DeserializeMode ==
    /\ mpc \in {"serialized", "received"}
    /\ mdecoded' = deserialize_mode(mtext)
    /\ mpc' = IF mpc = "serialized" THEN "roundtrip" ELSE "decoded"
    /\ UNCHANGED <<mode, mtext>>
    /\ UNCHANGED notMode

NextMode == SerializeMode \/ DeserializeMode

SpecMode == InitMode /\ [][NextMode]_vars

(***************************************************************************)
(* HandleActions: try_set_allow_list and try_add_allow_list, one request   *)
(* per step, for two writers of the same organization                      *)
(***************************************************************************)
MaxList == 2

Writers == {1, 2}

\* Patterns are strings; Vec<String>::sort orders them byte by byte.
Patterns == { <<"a">>, <<"a", "b">>, <<"b">> }

CharRank(c) == IF c = "a" THEN 1 ELSE 2

\* The order of String: a < b
RECURSIVE StrLess(_, _)
StrLess(a, b) ==
    IF Len(b) = 0 THEN FALSE
    ELSE IF Len(a) = 0 THEN TRUE
    ELSE IF CharRank(a[1]) # CharRank(b[1]) THEN CharRank(a[1]) < CharRank(b[1])
    ELSE StrLess(Tail(a), Tail(b))

RECURSIVE InsertSorted(_, _)
InsertSorted(x, sorted) ==
    IF Len(sorted) = 0 THEN << x >>
    ELSE IF StrLess(x, sorted[1]) THEN << x >> \o sorted
    ELSE << sorted[1] >> \o InsertSorted(x, Tail(sorted))

\* list.sort()
RECURSIVE sort(_)
sort(list) ==
    IF Len(list) = 0 THEN <<>>
    ELSE InsertSorted(list[Len(list)], sort(SubSeq(list, 1, Len(list) - 1)))

dedup_none(list) == list

\* list.dedup(): drops an element equal to the one before it
RECURSIVE dedup(_)
dedup(list) ==
    IF Len(list) <= 1 THEN list
    ELSE IF list[Len(list)] = list[Len(list) - 1] THEN dedup(SubSeq(list, 1, Len(list) - 1))
    ELSE Append(dedup(SubSeq(list, 1, Len(list) - 1)), list[Len(list)])

\* AllowedActions { verified, native, list }
AllowedActions(verified, native, list) ==
    [verified |-> verified, native |-> native, list |-> list, present |-> TRUE]

\* The payload of try_add_allow_list
AddPayload(got, add) == AllowedActions(got.verified, got.native, dedup(sort(got.list \o add)))

\* The payload of try_set_allow_list
SetPayload(got, set) == AllowedActions(got.verified, got.native, dedup(sort(set)))

ListsUpTo(n) == UNION { [1..k -> Patterns] : k \in 0..n }

AllowOps == {"try_add_allow_list", "try_set_allow_list"}

\* The arguments given to the two operations: nothing, one pattern, two
\* patterns out of order, the same pattern twice.
AllowArgs ==
    { <<>>,
      << <<"a">> >>,
      << <<"b">>, <<"a">> >>,
      << <<"a", "b">>, <<"a", "b">> >>,
      << <<"b">>, <<"a", "b">> >> }

InitAllow ==
    /\ TeamIdle
    /\ TreeIdle
    /\ ThreadIdle
    /\ HandleIdle
    /\ ParseIdle
    /\ RefIdle
    /\ PageIdle
    /\ SendIdle
    /\ IssueIdle
    /\ AccountIdle
    /\ SomeIdle
    /\ ModeIdle
    /\ \E v, n \in BOOLEAN : \E l \in ListsUpTo(MaxList) : remote = AllowedActions(v, n, l)
    /\ wpc = [w \in Writers |-> "idle"]
    /\ wop = [w \in Writers |-> "none"]
    /\ warg = [w \in Writers |-> <<>>]
    /\ wgot = [w \in Writers |-> NoAllowed]
    /\ wput = [w \in Writers |-> NoAllowed]
    /\ wres = [w \in Writers |-> "none"]

\* AllowedActions::from: GET orgs/{organization}/actions/permissions/selected-actions
GetAllowed ==
    \E w \in Writers : \E answered \in BOOLEAN :
    \E op \in AllowOps : \E arg \in AllowArgs :
        /\ wpc[w] = "idle"
        /\ wop' = [wop EXCEPT ![w] = op]
        /\ warg' = [warg EXCEPT ![w] = arg]
        /\ IF answered
           THEN /\ wgot' = [wgot EXCEPT ![w] = remote]
                /\ wpc' = [wpc EXCEPT ![w] = "fetched"]
                /\ UNCHANGED wres
           ELSE /\ wpc' = [wpc EXCEPT ![w] = "done"]
                /\ wres' = [wres EXCEPT ![w] = "error"]
                /\ UNCHANGED wgot
        /\ UNCHANGED <<remote, wput>>
        /\ UNCHANGED notAllow

PutAcceptedIfFresh(got, current) == got = current

\* The PUT carries the payload alone, no precondition on what was fetched:
\* the server takes it whatever the object has become since the GET.
PutAccepted(got, current) == TRUE

\* The rest of the operation: build the payload from what was fetched and
\* PUT orgs/{organization}/actions/permissions/selected-actions
PutAllowed ==
    \E w \in Writers : \E answered \in BOOLEAN :
        /\ wpc[w] = "fetched"
        /\ wput' = [wput EXCEPT ![w] =
                        IF wop[w] = "try_add_allow_list" THEN AddPayload(wgot[w], warg[w])
                        ELSE SetPayload(wgot[w], warg[w])]
        /\ wpc' = [wpc EXCEPT ![w] = "done"]
        /\ IF answered /\ PutAccepted(wgot[w], remote)
           THEN /\ remote' = wput'[w]
                /\ wres' = [wres EXCEPT ![w] = "ok"]
           ELSE /\ UNCHANGED remote
                /\ wres' = [wres EXCEPT ![w] = IF answered THEN "conflict" ELSE "error"]
        /\ UNCHANGED <<wop, warg, wgot>>
        /\ UNCHANGED notAllow

NextAllow == GetAllowed \/ PutAllowed

SpecAllow == InitAllow /\ [][NextAllow]_vars

(***************************************************************************)
(* Handles: Arc allocations, weak self-references, handles held by value,  *)
(* get_reference and try_set_properties                                    *)
(***************************************************************************)
MaxArcs == 2

ArcIds == 1..MaxArcs

HandleShas == {"c1", "c2"}

OrganizationNames == {"octo"}

\* A handle: its identity and the Weak it carries in `reference`.
Handle(kind, id, weak) == [kind |-> kind, id |-> id, weak |-> weak]

FreeArc == [state |-> "free", handle |-> NoHandle]

IsAlive(a) == a \in DOMAIN heap /\ heap[a].state = "alive"

IsFree(a) == a \in DOMAIN heap /\ heap[a].state = "free"

\* A new allocation takes the lowest free cell.
NextArc == CHOOSE a \in ArcIds : IsFree(a) /\ \A b \in ArcIds : IsFree(b) => a <= b

\* Arc::new_cyclic(|reference| H { reference: reference.clone(), .. })
new_cyclic(kind, id) ==
    [heap EXCEPT ![NextArc] = [state |-> "alive", handle |-> Handle(kind, id, NextArc)]]

\* Arc::from(value): a new allocation holding the value as it is
arc_from(h) == [heap EXCEPT ![NextArc] = [state |-> "alive", handle |-> h]]

\* Weak::upgrade: the allocation, while a strong reference to it is left
Upgrades(h) == IsAlive(h.weak)

ReturnArc(a) == [kind |-> "arc", arc |-> a]

ReturnPanic == [kind |-> "panic", arc |-> 0]

ReturnError == [kind |-> "error", arc |-> 0]

\* self.reference.upgrade().unwrap()
get_reference(h) == IF Upgrades(h) THEN ReturnArc(h.weak) ELSE ReturnPanic

\* get_endpoint of HandleCommit and of HandleOrganization
get_endpoint(h) ==
    IF h.kind = "commit" THEN <<"repos/octo/repo/git/commits", h.id>>
    ELSE <<"orgs", h.id>>

PatchRequest(h) == [method |-> "PATCH", endpoint |-> get_endpoint(h)]

HandleIds == HandleShas \cup OrganizationNames

IdentityFromBody(own, body) == body

\* try_set_properties drops the response (let _ = ..send()?): the handle
\* keeps the identity it had.
IdentityAfterPatch(own, body) == own

\* What a call can be made on: the handle of a live Arc, or the base or head
\* a Compare gives out by value.
Receivers ==
    { [handle |-> heap[a].handle, arc |-> a] : a \in { b \in ArcIds : IsAlive(b) } }
    \cup (IF compare.present
          THEN { [handle |-> compare.base, arc |-> 0], [handle |-> compare.head, arc |-> 0] }
          ELSE {})

InitHandle ==
    /\ TeamIdle
    /\ TreeIdle
    /\ ThreadIdle
    /\ ParseIdle
    /\ RefIdle
    /\ PageIdle
    /\ SendIdle
    /\ IssueIdle
    /\ AccountIdle
    /\ SomeIdle
    /\ ModeIdle
    /\ AllowIdle
    /\ heap = [a \in ArcIds |-> FreeArc]
    /\ compare = NoCompare
    /\ value = NoHandle
    /\ hop = "none"
    /\ hrecv = NoReceiver
    /\ hreq = <<>>
    /\ hres = NoReturn

Called(op, recv, reqs, ret) ==
    /\ hop' = op
    /\ hrecv' = recv
    /\ hreq' = reqs
    /\ hres' = ret

\* HandleCommit::try_fetch: GET the commit, then a new Arc
TryFetchCommit ==
    \E sha \in HandleShas : \E answered \in BOOLEAN :
        /\ \E a \in ArcIds : IsFree(a)
        /\ heap' = IF answered THEN new_cyclic("commit", sha) ELSE heap
        /\ Called("try_fetch", NoReceiver,
                  << [method |-> "GET", endpoint |-> <<"repos/octo/repo/git/commits", sha>>] >>,
                  IF answered THEN ReturnArc(NextArc) ELSE ReturnError)
        /\ UNCHANGED <<compare, value>>
        /\ UNCHANGED notHandle

\* Account::from_name for an organization: GET users/{name}, then a new Arc
FromNameOrganization ==
    \E name \in OrganizationNames : \E answered \in BOOLEAN :
        /\ \E a \in ArcIds : IsFree(a)
        /\ heap' = IF answered THEN new_cyclic("organization", name) ELSE heap
        /\ Called("from_name", NoReceiver,
                  << [method |-> "GET", endpoint |-> <<"users", name>>] >>,
                  IF answered THEN ReturnArc(NextArc) ELSE ReturnError)
        /\ UNCHANGED <<compare, value>>
        /\ UNCHANGED notHandle

\* Compare::try_from_base_head: GET the comparison, then keep clones of the
\* two handles by value
TryFromBaseHead ==
    \E a, b \in ArcIds : \E answered \in BOOLEAN :
        /\ IsAlive(a) /\ heap[a].handle.kind = "commit"
        /\ IsAlive(b) /\ heap[b].handle.kind = "commit"
        /\ compare' = IF answered
                      THEN [present |-> TRUE, base |-> heap[a].handle, head |-> heap[b].handle]
                      ELSE compare
        /\ Called("try_from_base_head", NoReceiver,
                  << [method |-> "GET",
                      endpoint |-> <<"repos/octo/repo/compare", heap[a].handle.id, heap[b].handle.id>>] >>,
                  IF answered THEN [kind |-> "compare", arc |-> 0] ELSE ReturnError)
        /\ UNCHANGED <<heap, value>>
        /\ UNCHANGED notHandle

\* HandleOrganization::clone on the handle of a live Arc
CloneOrganization ==
    \E a \in ArcIds :
        /\ IsAlive(a) /\ heap[a].handle.kind = "organization"
        /\ value = NoHandle
        /\ value' = heap[a].handle
        /\ Called("clone", [handle |-> heap[a].handle, arc |-> a], <<>>, [kind |-> "value", arc |-> 0])
        /\ UNCHANGED <<heap, compare>>
        /\ UNCHANGED notHandle

\* Account::from(HandleOrganization): the value moves into a new Arc
AccountFromOrganization ==
    /\ value # NoHandle
    /\ \E a \in ArcIds : IsFree(a)
    /\ heap' = arc_from(value)
    /\ value' = NoHandle
    /\ Called("account_from", [handle |-> value, arc |-> 0], <<>>, ReturnArc(NextArc))
    /\ UNCHANGED compare
    /\ UNCHANGED notHandle

\* The caller drops its last strong reference to an Arc.
DropArc ==
    \E a \in ArcIds :
        /\ IsAlive(a)
        /\ heap' = [heap EXCEPT ![a].state = "dropped"]
        /\ Called("drop", [handle |-> heap[a].handle, arc |-> a], <<>>, NoReturn)
        /\ UNCHANGED <<compare, value>>
        /\ UNCHANGED notHandle

\* get_reference
GetReference ==
    \E recv \in Receivers :
        /\ Called("get_reference", recv, <<>>, get_reference(recv.handle))
        /\ UNCHANGED <<heap, compare, value>>
        /\ UNCHANGED notHandle

\* GitHubProperties::try_set_properties: PATCH get_endpoint(), drop the
\* response, return get_reference()
TrySetProperties ==
    \E recv \in Receivers : \E answered \in BOOLEAN : \E body \in HandleIds :
        /\ heap' = IF answered /\ recv.arc # 0
                   THEN [heap EXCEPT ![recv.arc].handle.id = IdentityAfterPatch(recv.handle.id, body)]
                   ELSE heap
        /\ Called("try_set_properties", recv, << PatchRequest(recv.handle) >>,
                  IF answered THEN get_reference(recv.handle) ELSE ReturnError)
        /\ UNCHANGED <<compare, value>>
        /\ UNCHANGED notHandle

NextHandle ==
    \/ TryFetchCommit
    \/ FromNameOrganization
    \/ TryFromBaseHead
    \/ CloneOrganization
    \/ AccountFromOrganization
    \/ DropArc
    \/ GetReference
    \/ TrySetProperties

SpecHandle == InitHandle /\ [][NextHandle]_vars

(***************************************************************************)
(* The issue and comment operations: the path of every request, and the    *)
(* paginated listing of an issue's comments                                *)
(***************************************************************************)
MaxNew == 2

ThreadIssues == {7, 12}

ThreadCommentIds == {3}

CommentCounts == {0, 1, PerPage, PerPage + 1}

\* Display of HandleRepository: {owner}/{name}
RepositoryDisplay == <<"octo", "/", "repo">>

\* format!("repos/{repository}/issues/{number}")
issue_path(n) == <<"repos", "/">> \o RepositoryDisplay \o <<"/", "issues", "/">> \o NumToStr(n)

\* format!("repos/{repository}/issues/{self}/assignees")
assignees_path(n) ==
    <<"repos", "/">> \o RepositoryDisplay \o <<"/", "issues", "/">> \o NumToStr(n) \o <<"/", "assignees">>

\* format!("repos/{repository}/issues/comments/{number}")
comment_path(id) ==
    <<"repos", "/">> \o RepositoryDisplay \o <<"/", "issues", "/", "comments", "/">> \o NumToStr(id)

\* format!("repos/{repository}/issues/{issue}/comments")
create_comment_path(n) ==
    <<"repos", "/">> \o RepositoryDisplay \o <<"/", "issues", "/">> \o NumToStr(n) \o <<"/", "comments">>

\* format!("repos/{repository}/issues{issue}/comments")
list_comments_path(n) ==
    <<"repos", "/">> \o RepositoryDisplay \o <<"/", "issues">> \o NumToStr(n) \o <<"/", "comments">>

ThreadRequest(method, path, pg) == [method |-> method, path |-> path, page |-> pg]

ThreadResponse(status, wellformed, size) ==
    [status |-> status, body |-> [wellformed |-> wellformed, size |-> size]]

\* What the transport may do to a request instead of the server's answer.
ThreadFaults ==
    { ThreadResponse(0, FALSE, 0), ThreadResponse(403, FALSE, 0),
      ThreadResponse(500, FALSE, 0), ThreadResponse(200, FALSE, 0) }

NoFault == [page |-> 0, resp |-> ThreadResponse(-1, FALSE, 0)]

Faults == { NoFault } \cup { [page |-> k, resp |-> r] : k \in 1..2, r \in ThreadFaults }

\* The server's page of the comments of the issue: 404 for a path that
\* names no listing.
ListingSize(pg) ==
    IF tcount - PerPage * (pg - 1) >= PerPage THEN PerPage
    ELSE IF tcount - PerPage * (pg - 1) > 0 THEN tcount - PerPage * (pg - 1)
    ELSE 0

ServerListing(path, pg) ==
    IF path = create_comment_path(tissue) THEN ThreadResponse(200, TRUE, ListingSize(pg))
    ELSE ThreadResponse(404, FALSE, 0)

ListingMet(path, pg, fault) ==
    IF fault.page = pg THEN fault.resp ELSE ServerListing(path, pg)

ThreadOk(v) == [ok |-> TRUE, value |-> v, error |-> ""]

ThreadErr(client) == [ok |-> FALSE, value |-> 0, error |-> client.kind]

Fetched(ret, reqs) == [result |-> ret, requests |-> reqs]

\* HandleIssueComment::try_fetch_all: the loop from the given page, with `collected`
\* comments so far; the value of an Ok is the number of handles returned.
RECURSIVE comment_try_fetch_all(_, _, _, _, _)
comment_try_fetch_all(n, pg, collected, reqs, fault) ==
    LET path == list_comments_path(n)
        met == ListingMet(path, pg, fault)
        issued == Append(reqs, ThreadRequest("GET", path, pg))
    IN  IF ~send(met).ok /\ send(met).kind = "Nothing" THEN Fetched(ThreadOk(collected), issued)
        ELSE IF ~send(met).ok THEN Fetched(ThreadErr(send(met)), issued)
        ELSE IF ~json(met).ok THEN Fetched(ThreadErr(json(met)), issued)
        ELSE IF met.body.size < PerPage THEN Fetched(ThreadOk(collected + met.body.size), issued)
        ELSE comment_try_fetch_all(n, pg + 1, collected + met.body.size, issued, fault)

\* HandleIssue::try_has_comments:
\* Err(Nothing) => Ok(false), Err(error) => Err(..), Ok(_) => Ok(true)
try_has_comments(got) ==
    IF got.result.ok THEN ThreadOk(TRUE)
    ELSE got.result

\* The answer to a request for one object: the server's, or a fault.
ObjectMet == { ThreadResponse(200, TRUE, 1), ThreadResponse(404, FALSE, 0) } \cup ThreadFaults

ObjectResult(met) == IF send_json(met).ok THEN ThreadOk(1) ELSE ThreadErr(send_json(met))

InitThread ==
    /\ TeamIdle
    /\ TreeIdle
    /\ ParseIdle
    /\ RefIdle
    /\ PageIdle
    /\ SendIdle
    /\ IssueIdle
    /\ AccountIdle
    /\ SomeIdle
    /\ ModeIdle
    /\ AllowIdle
    /\ HandleIdle
    /\ tissue \in ThreadIssues
    /\ tcount \in CommentCounts
    /\ top = "none"
    /\ treqs = <<>>
    /\ tres = NoThreadResult

ThreadCalled(op, reqs, ret) ==
    /\ top' = op
    /\ treqs' = reqs
    /\ tres' = ret

\* HandleIssue::try_fetch
ThreadTryFetchIssue ==
    \E met \in ObjectMet :
        /\ ThreadCalled("issue_try_fetch", << ThreadRequest("GET", issue_path(tissue), 0) >>, ObjectResult(met))
        /\ UNCHANGED <<tissue, tcount>>
        /\ UNCHANGED notThread

\* HandleIssue::try_set_assignees
TrySetAssignees ==
    \E met \in ObjectMet :
        /\ ThreadCalled("try_set_assignees", << ThreadRequest("POST", assignees_path(tissue), 0) >>,
                        IF send(met).ok THEN ThreadOk(0) ELSE ThreadErr(send(met)))
        /\ UNCHANGED <<tissue, tcount>>
        /\ UNCHANGED notThread

\* HandleIssue::try_get_assignees
TryGetAssignees ==
    \E met \in ObjectMet :
        /\ ThreadCalled("try_get_assignees", << ThreadRequest("POST", assignees_path(tissue), 0) >>, ObjectResult(met))
        /\ UNCHANGED <<tissue, tcount>>
        /\ UNCHANGED notThread

\* HandleIssueComment::try_fetch
ThreadTryFetchComment ==
    \E id \in ThreadCommentIds : \E met \in ObjectMet :
        /\ ThreadCalled("comment_try_fetch", << ThreadRequest("GET", comment_path(id), 0) >>, ObjectResult(met))
        /\ UNCHANGED <<tissue, tcount>>
        /\ UNCHANGED notThread

\* HandleIssueComment::try_create: the comment is on the server once the
\* POST is answered
TryCreateComment ==
    \E met \in ObjectMet :
        /\ tcount < PerPage + MaxNew
        /\ ThreadCalled("try_create_comment", << ThreadRequest("POST", create_comment_path(tissue), 0) >>,
                        ObjectResult(met))
        /\ tcount' = IF met.status = 200 THEN tcount + 1 ELSE tcount
        /\ UNCHANGED tissue
        /\ UNCHANGED notThread

\* HandleIssueComment::try_delete
TryDeleteComment ==
    \E id \in ThreadCommentIds : \E met \in ObjectMet :
        /\ (met.status = 200 /\ met.body.wellformed) => tcount > 0
        /\ ThreadCalled("try_delete_comment", << ThreadRequest("DELETE", comment_path(id), 0) >>,
                        IF send(met).ok THEN ThreadOk(0) ELSE ThreadErr(send(met)))
        /\ tcount' = IF met.status = 200 /\ met.body.wellformed THEN tcount - 1 ELSE tcount
        /\ UNCHANGED tissue
        /\ UNCHANGED notThread

\* HandleIssue::try_get_all_issue_comments
TryGetAllIssueComments ==
    \E fault \in Faults :
        LET got == comment_try_fetch_all(tissue, 1, 0, <<>>, fault)
        IN  /\ ThreadCalled("try_get_all_issue_comments", got.requests, got.result)
            /\ UNCHANGED <<tissue, tcount>>
            /\ UNCHANGED notThread

\* HandleIssue::try_has_comments
TryHasComments ==
    \E fault \in Faults :
        LET got == comment_try_fetch_all(tissue, 1, 0, <<>>, fault)
        IN  /\ ThreadCalled("try_has_comments", got.requests, try_has_comments(got))
            /\ UNCHANGED <<tissue, tcount>>
            /\ UNCHANGED notThread

NextThread ==
    \/ ThreadTryFetchIssue
    \/ TrySetAssignees
    \/ TryGetAssignees
    \/ ThreadTryFetchComment
    \/ TryCreateComment
    \/ TryDeleteComment
    \/ TryGetAllIssueComments
    \/ TryHasComments

SpecThread == InitThread /\ [][NextThread]_vars

(***************************************************************************)
(* Tree::try_create_with_base, one request per step                        *)
(***************************************************************************)
BaseCommits == {"c1", "c2"}

TreeShas == {"t1", "t2"}

\* The sha the server gives the tree a POST creates.
CreatedTree == "t3"

EntryLists == { <<>>, <<"e1">>, <<"e1", "e2">> }

TreeResponse(status, wellformed, sha) ==
    [status |-> status, body |-> [wellformed |-> wellformed, sha |-> sha]]

\* What the transport may do to a request instead of the server's answer.
TreeFaults ==
    { TreeResponse(0, FALSE, ""), TreeResponse(403, FALSE, ""), TreeResponse(404, FALSE, ""),
      TreeResponse(500, FALSE, ""), TreeResponse(200, FALSE, "") }

\* client.get("repos/{repository}/git/commits/{self}")
GetCommitRequest(commit) ==
    [method |-> "GET", resource |-> "git/commits", sha |-> commit, recursive |-> FALSE,
     base_tree |-> "", tree |-> <<>>]

\* client.get("repos/{repository}/git/trees/{sha}").query(recursive)
GetTreeRequest(sha, recursive) ==
    [method |-> "GET", resource |-> "git/trees", sha |-> sha, recursive |-> recursive,
     base_tree |-> "", tree |-> <<>>]

PostTreeOnCommit(commit, basetree, given) ==
    [method |-> "POST", resource |-> "git/trees", sha |-> "", recursive |-> FALSE,
     base_tree |-> commit, tree |-> given]

\* client.post("repos/{repository}/git/trees").json({"base_tree": tree.get_sha(), "tree": entries})
PostTreeRequest(commit, basetree, given) ==
    [method |-> "POST", resource |-> "git/trees", sha |-> "", recursive |-> FALSE,
     base_tree |-> basetree, tree |-> given]

TreeOk(sha) == [ok |-> TRUE, sha |-> sha, error |-> ""]

TreeErr(client) == [ok |-> FALSE, sha |-> "", error |-> client.kind]

InitTree ==
    /\ TeamIdle
    /\ ParseIdle
    /\ RefIdle
    /\ PageIdle
    /\ SendIdle
    /\ IssueIdle
    /\ AccountIdle
    /\ SomeIdle
    /\ ModeIdle
    /\ AllowIdle
    /\ HandleIdle
    /\ ThreadIdle
    /\ ctree \in [BaseCommits -> TreeShas]
    /\ strees = TreeShas
    /\ bbase \in BaseCommits
    /\ bentries \in EntryLists
    /\ bpc = "commit"
    /\ bcommit = ""
    /\ btree = ""
    /\ breqs = <<>>
    /\ bres = NoTreeResult

\* HandleCommit::try_get_tree, first request: GET the base commit and read
\* tree.sha from it
GetBaseCommit ==
    \E met \in { TreeResponse(200, TRUE, ctree[bbase]) } \cup TreeFaults :
        /\ bpc = "commit"
        /\ breqs' = Append(breqs, GetCommitRequest(bbase))
        /\ IF send_json(met).ok
           THEN /\ bcommit' = met.body.sha
                /\ bpc' = "tree"
                /\ UNCHANGED bres
           ELSE /\ bpc' = "done"
                /\ bres' = TreeErr(send_json(met))
                /\ UNCHANGED bcommit
        /\ UNCHANGED <<ctree, strees, bbase, bentries, btree>>
        /\ UNCHANGED notTree

\* Tree::try_fetch(repository, sha, false): GET that tree
GetBaseTree ==
    \E met \in { TreeResponse(200, TRUE, bcommit) } \cup TreeFaults :
        /\ bpc = "tree"
        /\ breqs' = Append(breqs, GetTreeRequest(bcommit, FALSE))
        /\ IF send_json(met).ok
           THEN /\ btree' = met.body.sha
                /\ bpc' = "post"
                /\ UNCHANGED bres
           ELSE /\ bpc' = "done"
                /\ bres' = TreeErr(send_json(met))
                /\ UNCHANGED btree
        /\ UNCHANGED <<ctree, strees, bbase, bentries, bcommit>>
        /\ UNCHANGED notTree

\* The POST and the reading of its answer: the server has created the tree
\* once it answers 2xx, whether or not the body then deserializes.
PostTree ==
    \E met \in { TreeResponse(201, TRUE, CreatedTree) } \cup TreeFaults :
        /\ bpc = "post"
        /\ breqs' = Append(breqs, PostTreeRequest(bbase, btree, bentries))
        /\ strees' = IF send(met).ok THEN strees \cup {CreatedTree} ELSE strees
        /\ bpc' = "done"
        /\ bres' = IF send_json(met).ok THEN TreeOk(met.body.sha) ELSE TreeErr(send_json(met))
        /\ UNCHANGED <<ctree, bbase, bentries, bcommit, btree>>
        /\ UNCHANGED notTree

NextTree == GetBaseCommit \/ GetBaseTree \/ PostTree

SpecTree == InitTree /\ [][NextTree]_vars

(***************************************************************************)
(* The members of a team                                                   *)
(***************************************************************************)
MaxTeam == 3

MemberIds == 1..MaxTeam

\* The teams the server may hold: no member twice.
Rosters ==
    { s \in UNION { [1..n -> MemberIds] : n \in 0..MaxTeam } :
        \A i, j \in 1..Len(s) : s[i] = s[j] => i = j }

\* Display of HandleTeam: {slug}
TeamDisplay == <<"core">>

\* format!("orgs/{organization}/teams/{self}/members")
members_path ==
    <<"orgs", "/", "octo", "/", "teams", "/">> \o TeamDisplay \o <<"/", "members">>

\* A request and its query; 0 stands for a parameter the request leaves out.
TeamRequest(method, path, pg, size) ==
    [method |-> method, path |-> path, page |-> pg, per_page |-> size]

\* client.get(..)?.send(): no .query(..) between them
MembersRequest == TeamRequest("GET", members_path, 0, 0)

TeamBody(wellformed, list) == [wellformed |-> wellformed, members |-> list]

\* The server's answer to a listing request: the page the query names, the
\* first page of the server's own size when the query names none.
PageOfRoster(req) ==
    LET size == IF req.per_page = 0 THEN pagesize ELSE req.per_page
        pg == IF req.page = 0 THEN 1 ELSE req.page
        first == size * (pg - 1) + 1
        last == IF size * pg < Len(roster) THEN size * pg ELSE Len(roster)
    IN  SubSeq(roster, first, last)

ServerMembers(req) ==
    IF req.path = members_path THEN Http(200, TeamBody(TRUE, PageOfRoster(req)))
    ELSE Http(404, TeamBody(FALSE, <<>>))

\* What the transport may do to the request instead of the server's answer.
TeamFaults ==
    { Http(0, TeamBody(FALSE, <<>>)), Http(403, TeamBody(FALSE, <<>>)),
      Http(404, TeamBody(FALSE, <<>>)), Http(200, TeamBody(FALSE, <<>>)) }

TeamMet(req) == { ServerMembers(req) } \cup TeamFaults

TeamOk(v) == [ok |-> TRUE, value |-> v, error |-> ""]

TeamErr(client) == [ok |-> FALSE, value |-> <<>>, error |-> client.kind]

\* HandleTeam::try_get_team_members: Ok(client.get(..)?.send()?.json()?)
try_get_team_members(met) ==
    IF send_json(met).ok THEN TeamOk(met.body.members) ELSE TeamErr(send_json(met))

\* HandleTeam::try_has_team_member: Ok(members.contains(member))
try_has_team_member(member, met) ==
    LET got == try_get_team_members(met)
    IN  IF got.ok THEN TeamOk(\E i \in 1..Len(got.value) : got.value[i] = member)
        ELSE got

InitTeam ==
    /\ ParseIdle
    /\ RefIdle
    /\ PageIdle
    /\ SendIdle
    /\ IssueIdle
    /\ AccountIdle
    /\ SomeIdle
    /\ ModeIdle
    /\ AllowIdle
    /\ HandleIdle
    /\ ThreadIdle
    /\ TreeIdle
    /\ roster \in Rosters
    /\ pagesize \in 1..MaxTeam
    /\ teamop = "none"
    /\ teamarg = 0
    /\ teamreqs = <<>>
    /\ teamres = NoTeamResult

\* HandleTeam::try_get_team_members
TryGetTeamMembers ==
    \E met \in TeamMet(MembersRequest) :
        /\ teamop' = "try_get_team_members"
        /\ teamarg' = 0
        /\ teamreqs' = << MembersRequest >>
        /\ teamres' = try_get_team_members(met)
        /\ UNCHANGED <<roster, pagesize>>
        /\ UNCHANGED notTeam

\* HandleTeam::try_has_team_member
TryHasTeamMember ==
    \E member \in MemberIds, met \in TeamMet(MembersRequest) :
        /\ teamop' = "try_has_team_member"
        /\ teamarg' = member
        /\ teamreqs' = << MembersRequest >>
        /\ teamres' = try_has_team_member(member, met)
        /\ UNCHANGED <<roster, pagesize>>
        /\ UNCHANGED notTeam

NextTeam == TryGetTeamMembers \/ TryHasTeamMember

SpecTeam == InitTeam /\ [][NextTeam]_vars

(***************************************************************************)
(* The parse pipeline: inputs are '/'-joined token lists                   *)
(***************************************************************************)
MaxTokens == 4

Words ==
    { S_refs, S_heads, S_tags, S_pull, S_empty, <<"a">>, <<"7">>, <<"+", "7">> }

TokenLists == UNION { [1..n -> Words] : n \in 1..MaxTokens }

InitParse ==
    /\ TeamIdle
    /\ TreeIdle
    /\ ThreadIdle
    /\ HandleIdle
    /\ AllowIdle
    /\ ModeIdle
    /\ SomeIdle
    /\ AccountIdle
    /\ IssueIdle
    /\ SendIdle
    /\ RefIdle
    /\ PageIdle
    /\ raw \in { JoinSlash(ts) : ts \in TokenLists }
    /\ parsed = NoParse
    /\ shown = S_empty
    /\ reparsed = NoParse
    /\ ppc = "input"

Parse ==
    /\ ppc = "input"
    /\ parsed' = try_parse(raw)
    /\ ppc' = "parsed"
    /\ UNCHANGED <<raw, shown, reparsed>>
    /\ UNCHANGED notParse

Show ==
    /\ ppc = "parsed"
    /\ IsOk(parsed)
    /\ shown' = Display(parsed)
    /\ ppc' = "shown"
    /\ UNCHANGED <<raw, parsed, reparsed>>
    /\ UNCHANGED notParse

Reparse ==
    /\ ppc = "shown"
    /\ reparsed' = try_parse(shown)
    /\ ppc' = "reparsed"
    /\ UNCHANGED <<raw, parsed, shown>>
    /\ UNCHANGED notParse

NextParse == Parse \/ Show \/ Reparse

SpecParse == InitParse /\ [][NextParse]_vars

(***************************************************************************)
(* Claims about try_parse and Display                                      *)
(***************************************************************************)
Kinds == { S_heads, S_tags, S_pull }

\* The segments of the input after an optional leading "refs".
Unqualified(s) == IF Split(s)[1] = S_refs THEN Tail(Split(s)) ELSE Split(s)

SameReference(a, b) ==
    /\ a.kind = b.kind
    /\ IsOk(a) => (a.name = b.name /\ a.issue = b.issue)

\* C5: the fully-qualified and the short form of a ref parse to the same
\* reference: [refs/]heads/x gives Branch{x}, [refs/]tags/x gives Tag{x},
\* [refs/]pull/N/x gives PullRequest{N, x} when N is a number and Invalid
\* otherwise; an input whose first segment (after an optional leading refs)
\* is none of heads, tags, pull is Invalid.
C5_QualifiedAndShortAgree ==
    ppc # "input" =>
        LET u == Unqualified(raw)
            n == Len(u)
        IN  /\ (n >= 2 /\ u[1] = S_heads) =>
                    parsed = [kind |-> "Branch", issue |-> 0,
                              name |-> JoinSlash(SubSeq(u, 2, n))]
            /\ (n >= 2 /\ u[1] = S_tags) =>
                    parsed = [kind |-> "Tag", issue |-> 0,
                              name |-> JoinSlash(SubSeq(u, 2, n))]
            /\ (n >= 3 /\ u[1] = S_pull /\ IsNumber(u[2])) =>
                    parsed = [kind |-> "PullRequest", issue |-> NumberOf(u[2]),
                              name |-> JoinSlash(SubSeq(u, 3, n))]
            /\ (n >= 3 /\ u[1] = S_pull /\ ~IsNumber(u[2])) =>
                    parsed = [kind |-> "Invalid", issue |-> 0, name |-> raw]
            /\ (n = 0 \/ (n >= 1 /\ u[1] \notin Kinds)) =>
                    parsed = [kind |-> "Invalid", issue |-> 0, name |-> raw]
            /\ (Split(raw)[1] \in Kinds) =>
                    SameReference(try_parse(S_refs \o S_slash \o raw), parsed)

C5_Witness ==
    /\ ppc = "parsed"
    /\ raw = S_refs \o S_slash \o S_pull \o S_slash \o <<"7">> \o S_slash \o <<"a">>
    /\ parsed = [kind |-> "PullRequest", issue |-> 7, name |-> <<"a">>]

\* C6: every input that is not a kind prefix followed by a name is Invalid,
\* so no successfully parsed reference has an empty name.
C6_NoEmptyName ==
    (ppc # "input" /\ IsOk(parsed)) => parsed.name # S_empty

\* C7: parse and display round-trip, names with '/' included: parsing the
\* displayed reference gives the same variant, name and issue number; the
\* name is the remaining segments rejoined with '/', and the displayed
\* string is the short form (kind prefix, then the name, no leading refs).
KindSegments(r) ==
    IF r.kind = "PullRequest" THEN <<S_pull, NumToStr(r.issue)>>
    ELSE IF r.kind = "Branch" THEN <<S_heads>>
    ELSE <<S_tags>>

C7_RoundTrip ==
    ppc = "reparsed" =>
        /\ reparsed = parsed
        /\ Split(shown) = KindSegments(parsed) \o Split(parsed.name)
        /\ LET u == Unqualified(raw)
               k == Len(KindSegments(parsed))
           IN  parsed.name = JoinSlash(SubSeq(u, k + 1, Len(u)))

C7_Witness ==
    /\ ppc = "reparsed"
    /\ parsed = [kind |-> "Branch", issue |-> 0, name |-> <<"a", "/", "a", "/", "a">>]
    /\ reparsed = parsed

(***************************************************************************)
(* Claims about try_get_commit                                             *)
(***************************************************************************)
\* The object the ref of the handle in hand points at on the server.
Target == refs[RefName(Display(handle))]

\* The tag shas on the way from object o to the first commit or to the first
\* tag seen before, and the object the way ends at.
RECURSIVE ChainTags(_, _)
ChainTags(o, seen) ==
    IF o.type = "commit" \/ o.sha \in seen THEN <<>>
    ELSE <<o.sha>> \o ChainTags(tagobjs[o.sha], seen \cup {o.sha})

RECURSIVE ChainEnd(_, _)
ChainEnd(o, seen) ==
    IF o.type = "commit" \/ o.sha \in seen THEN o
    ELSE ChainEnd(tagobjs[o.sha], seen \cup {o.sha})

Cyclic(o) == ChainEnd(o, {}).type = "tag"

TagRequests(shas) == [i \in 1..Len(shas) |-> [method |-> "GET", resource |-> "git/tags", path |-> shas[i]]]

RefRequest == << [method |-> "GET", resource |-> "git/ref", path |-> Display(handle)] >>

C1_NoCommitFromCycle ==
    (result.op = "try_get_commit" /\ Cyclic(Target)) =>
        /\ ~result.ok
        /\ ~faulted => (result.error = "Circular" /\ result.reference = Display(handle))
        /\ ~faulted => gets = RefRequest \o TagRequests(ChainTags(Target, {}))

C1_CircularAtOnce ==
    (pc = "loop" /\ capsule.type = "tag" /\ capsule.sha \in visited) =>
        (pc' = "idle" /\ result'.error = "Circular" /\ gets' = gets)

\* C1: while following annotated tags, try_get_commit fails with Circular as
\* soon as a tag object's target is a tag sha already visited, with no
\* further request; for a cyclic chain it returns no commit, and its
\* requests are the ref and each tag of the cycle once.
C1_CircularDetected == [](C1_NoCommitFromCycle) /\ [][C1_CircularAtOnce]_vars

C1_Witness ==
    /\ result.op = "try_get_commit"
    /\ result.error = "Circular"
    /\ Target = CapsuleTag(<<"t", 1>>)
    /\ tagobjs[<<"t", 1>>] = CapsuleTag(<<"t", 2>>)
    /\ tagobjs[<<"t", 2>>] = CapsuleTag(<<"t", 1>>)
    /\ Len(gets) = 3

\* C2: for an acyclic chain ref -> tag_1 -> ... -> tag_n -> commit c held by
\* the server, and requests that are all answered, try_get_commit returns
\* the commit c, having issued the GET of the ref, one GET of git/tags per
\* tag in chain order, then the GET of the commit.
C2_AcyclicChainResolves ==
    (/\ result.op = "try_get_commit"
     /\ ~faulted
     /\ ~Cyclic(Target)
     /\ ChainEnd(Target, {}).sha \in commits) =>
        /\ result.ok
        /\ result.sha = ChainEnd(Target, {}).sha
        /\ gets = RefRequest \o TagRequests(ChainTags(Target, {}))
                    \o << [method |-> "GET", resource |-> "git/commits",
                           path |-> ChainEnd(Target, {}).sha] >>

C2_Witness ==
    /\ result.op = "try_get_commit"
    /\ result.ok
    /\ result.sha = <<"c", 1>>
    /\ Len(ChainTags(Target, {})) = 2
    /\ Len(gets) = 4

(***************************************************************************)
(* Claims about try_fetch, try_create_branch and try_get_branch            *)
(***************************************************************************)
HeadsFoo == S_heads \o S_slash \o S_foo

Answered == response.status \in 200..299 /\ response.body.wellformed

\* C3: try_fetch(raw) succeeds only when the ref name the server returned
\* ends with raw: "heads/foo" answered with "refs/heads/foobar" fails with
\* Nothing, answered with "refs/heads/foo" it succeeds.
C3_SuffixValidated ==
    result.op = "try_get_reference" =>
        /\ result.ok => (Answered /\ EndsWith(response.body.name, result.arg))
        /\ (/\ result.arg = HeadsFoo
            /\ Answered
            /\ response.body.name = S_refs \o S_slash \o S_heads \o S_slash \o S_foobar) =>
                (~result.ok /\ result.error = "Nothing" /\ result.reference = HeadsFoo)
        /\ (/\ result.arg = HeadsFoo
            /\ Answered
            /\ response.body.name = S_refs \o S_slash \o HeadsFoo) =>
                (result.ok /\ result.ref = [kind |-> "Branch", name |-> S_foo, issue |-> 0])

C3_Witness ==
    /\ result.op = "try_get_reference"
    /\ result.arg = HeadsFoo
    /\ Answered
    /\ response.body.name = S_refs \o S_slash \o S_heads \o S_slash \o S_foobar
    /\ result.error = "Nothing"

\* C4: the failures of try_fetch are of disjoint kinds: Invalid exactly for
\* a string that does not parse (no request is issued, so no remote outcome
\* produces it), Nothing carrying the raw string exactly for a 404 or a
\* name mismatch, Client for every other failure of the request.
C4_FailureKinds ==
    result.op = "try_get_reference" =>
        LET parses == try_parse(result.arg).kind \in {"Branch", "Tag", "PullRequest"}
            mismatch == Answered /\ ~EndsWith(response.body.name, result.arg)
            absent == response.status = 404
        IN  /\ (result.error = "Invalid") <=> ~parses
            /\ (result.error = "Invalid") => (gets = <<>> /\ result.reference = result.arg)
            /\ (result.error = "Nothing") <=> (parses /\ (absent \/ mismatch))
            /\ (result.error = "Nothing") => (Len(gets) = 1 /\ result.reference = result.arg)
            /\ (result.error = "Client") <=> (parses /\ ~absent /\ ~Answered)
            /\ result.ok <=> (parses /\ Answered /\ ~mismatch)
            /\ result.error \in {"", "Invalid", "Nothing", "Client"}

C4_Witness ==
    /\ result.op = "try_get_reference"
    /\ result.error = "Client"
    /\ result.client = "Unauthorized"
    /\ response.status = 403

\* C8: after try_create_branch("main", c) succeeded and while no other
\* writer has touched the refs, try_get_branch("main") succeeds with a
\* Branch reference, and its try_get_commit returns the commit of sha c
\* (every request being answered).
C8_CreatedBranchResolves ==
    /\ (/\ result.op = "try_get_branch"
        /\ result.arg = S_main
        /\ created.name = S_main
        /\ ~faulted) =>
            (result.ok /\ result.ref = [kind |-> "Branch", name |-> S_main, issue |-> 0])
    /\ (/\ result.op = "try_get_commit"
        /\ via = "try_get_branch"
        /\ handle = [kind |-> "Branch", name |-> S_main, issue |-> 0]
        /\ created.name = S_main
        /\ ~faulted) =>
            (result.ok /\ result.sha = created.sha)

C8_Witness ==
    /\ result.op = "try_get_commit"
    /\ via = "try_get_branch"
    /\ handle = [kind |-> "Branch", name |-> S_main, issue |-> 0]
    /\ created = [name |-> S_main, sha |-> <<"c", 1>>]
    /\ result.ok
    /\ result.sha = <<"c", 1>>

(***************************************************************************)
(* Claims about the pagination loops                                       *)
(***************************************************************************)
RECURSIVE PagesUpTo(_)
PagesUpTo(k) ==
    IF k = 0 THEN <<>>
    ELSE PagesUpTo(k - 1) \o [i \in 1..(IF k <= Len(pages) THEN pages[k] ELSE tail) |-> <<k, i>>]

SizeOfPage(k) == IF k <= Len(pages) THEN pages[k] ELSE tail

\* The first page with fewer than 100 items, 0 when none is in sight.
FirstShort ==
    IF \E k \in 1..PageCap : SizeOfPage(k) < 100
    THEN CHOOSE k \in 1..PageCap : SizeOfPage(k) < 100 /\ \A j \in 1..(k - 1) : SizeOfPage(j) >= 100
    ELSE 0

\* C9: a list-all operation requests per_page=100 and page=1,2,..,k in that
\* order, k being the first page with fewer than 100 items, makes exactly k
\* requests and collects the items of pages 1..k in page order (it returns
\* a handle for each, for issues for each that is no pull request):
\* [100,100,37] gives 3 requests and 237 items, [100,100,100,0] gives 4
\* requests, [0] gives 1 request and no item.
C9_PagesCollected ==
    pgpc = "done" =>
        /\ FirstShort > 0
        /\ Len(requests) = FirstShort
        /\ \A i \in 1..Len(requests) :
                requests[i] = [endpoint |-> Endpoint(listing), per_page |-> 100, page |-> i]
        /\ collection = PagesUpTo(FirstShort)
        /\ pgresult.ok
        /\ (listing # "issues" \/ prs = 0) => pgresult.items = collection
        /\ (pages = <<100, 100, 37>>) => (Len(requests) = 3 /\ Len(collection) = 237)
        /\ (pages = <<100, 100, 100>> /\ tail = 0) => (Len(requests) = 4 /\ Len(collection) = 300)
        /\ (pages = <<>> /\ tail = 0) => (Len(requests) = 1 /\ Len(collection) = 0)
        /\ (pages = <<0>>) => (Len(requests) = 1 /\ Len(collection) = 0)

C9_Witness ==
    /\ pgpc = "done"
    /\ listing = "teams"
    /\ pages = <<100, 100, 37>>
    /\ Len(requests) = 3
    /\ Len(pgresult.items) = 237

\* C10: the loop has ended exactly when a requested page had fewer than 100
\* items or a request failed; while the server answers every page with
\* exactly 100 items it goes on, however many pages it has requested.
C10_EndsOnlyOnShortPage ==
    /\ (pgpc \in {"done", "failed"}) <=>
            \/ pgpc = "failed"
            \/ \E i \in 1..Len(requests) : SizeOfPage(requests[i].page) < 100
    /\ (pgpc = "failed") => ~pgresult.ok
    /\ (pgpc = "loop") => (Len(collection) = 100 * page /\ Len(requests) = page)

C10_Witness ==
    /\ pgpc = "loop"
    /\ tail = 100
    /\ \A i \in 1..Len(pages) : pages[i] = 100
    /\ page > Len(pages) + 1
    /\ Len(collection) = 100 * page

\* The items the server lists on pages 1..k.
Listed(k) == { <<p, i>> : p \in 1..k, i \in 1..100 } \cap { PagesUpTo(k)[j] : j \in 1..Len(PagesUpTo(k)) }

ServerOrder(a, b) == a[1] < b[1] \/ (a[1] = b[1] /\ a[2] < b[2])

\* C15: HandleIssue::try_fetch_all returns exactly the plain issues of the
\* fetched pages, in server order and with no pull request among them; the
\* stop test looks at the unfiltered page, so a page of 100 pull requests
\* does not end the pagination.
C15_PlainIssuesOfAllPages ==
    (listing = "issues" /\ pgpc = "done") =>
        /\ \A j \in 1..Len(pgresult.items) : ~is_pull_request(pgresult.items[j])
        /\ { pgresult.items[j] : j \in 1..Len(pgresult.items) }
                = { it \in Listed(Len(requests)) : prs = 0 \/ it[2] % prs # 0 }
        /\ \A i, j \in 1..Len(pgresult.items) :
                i < j => ServerOrder(pgresult.items[i], pgresult.items[j])
        /\ Len(requests) = FirstShort
        /\ \A q \in 1..(Len(requests) - 1) : SizeOfPage(q) >= 100

C15_Witness ==
    /\ listing = "issues"
    /\ pgpc = "done"
    /\ prs = 1
    /\ pages = <<100, 37>>
    /\ Len(requests) = 2
    /\ Len(collection) = 137
    /\ pgresult.ok
    /\ pgresult.items = <<>>

(***************************************************************************)
(* Claims about GitHubRequestBuilder::send                                 *)
(***************************************************************************)
LastAttempt == attempts[Len(attempts)]

Answered_send == Len(attempts) > 0 /\ LastAttempt.status # 0

ExpectedKind(code) ==
    CASE code \in {401, 403} -> "Unauthorized"
      [] code = 404 -> "Nothing"
      [] code = 422 -> "Validation"
      [] OTHER -> "Unhandled"

\* C11: send returns a 2xx response as success and maps every other status
\* to exactly one error kind that carries the numeric code and the server's
\* message when there is one: 401 and 403 to Unauthorized, 404 to Nothing,
\* 422 to Validation, anything else to Unhandled.
C11_StatusMapping ==
    (sendpc = "done" /\ Answered_send) =>
        IF LastAttempt.status \in 200..299
        THEN sendresult.ok /\ sendresult.code = LastAttempt.status
        ELSE /\ ~sendresult.ok
             /\ sendresult.class = "Response"
             /\ sendresult.kind = ExpectedKind(LastAttempt.status)
             /\ sendresult.code = LastAttempt.status
             /\ sendresult.message = (IF LastAttempt.body = "message" THEN << "m" >> ELSE <<>>)

C11_Witness ==
    /\ sendpc = "done"
    /\ Answered_send
    /\ LastAttempt.status = 403
    /\ sendresult.kind = "Unauthorized"
    /\ sendresult.code = 403
    /\ sendresult.message = << "m" >>

C12_OnlyLastAnswered ==
    /\ \A i \in 1..(Len(attempts) - 1) : attempts[i].status = 0
    /\ Answered_send => (sendpc = "done" /\ sendresult.class # "Request")

C12_AttemptAfterFailure ==
    (Len(attempts') > Len(attempts)) =>
        /\ sendpc = "retry"
        /\ attempts = <<>> \/ LastAttempt.status = 0

\* C12: the request is executed again only after the previous execute failed
\* without a response; once any response has arrived, 4xx and 5xx included,
\* no further attempt is made and the response is classified and returned.
C12_RetryOnlyTransient == [](C12_OnlyLastAnswered) /\ [][C12_AttemptAfterFailure]_vars

C12_Witness ==
    /\ sendpc = "done"
    /\ Len(attempts) >= 2
    /\ attempts[1].status = 0
    /\ LastAttempt.status = 500
    /\ sendresult.kind = "Unhandled"

(***************************************************************************)
(* Claims about issues                                                     *)
(***************************************************************************)
Deserialized == ipc = "done" /\ imet.status = 200 /\ fetched.kind # "Malformed"

\* C13: an issue payload that has a pull_request key deserializes to
\* Issue::PullRequest, not Issue::Plain, also when the key's value is null.
C13_NullKeyIsPullRequest ==
    (Deserialized /\ imet.payload.pull_request \in {"null", "object"}) =>
        fetched.kind = "PullRequest"

\* C14: try_fetch(repository, n) returns IssueError::Issue{number: n}
\* whenever the payload carries a pull_request sub-object, and returns a
\* handle, of number n, only when the payload deserializes as a plain issue.
C14_PullRequestIsError ==
    (ipc = "done") =>
        /\ (imet.status = 200 /\ imet.payload.content /\ imet.payload.pull_request = "object")
                => iresult = [ok |-> FALSE, error |-> "Issue", client |-> "", number |-> inumber]
        /\ iresult.ok =>
                /\ imet.status = 200
                /\ imet.payload.pull_request \in {"absent", "null"}
                /\ fetched.kind = "Plain"
                /\ iresult.number = inumber
        /\ (iresult.error = "Issue") => fetched.kind = "PullRequest"

C14_Witness ==
    /\ ipc = "done"
    /\ inumber = 7
    /\ imet.status = 200
    /\ imet.payload.pull_request = "object"
    /\ iresult.error = "Issue"
    /\ iresult.number = 7

(***************************************************************************)
(* Claims about accounts                                                   *)
(***************************************************************************)
AccountDecoded == apc = "done" /\ amet.status = 200 /\ amet.payload.complete

\* C16: from_name gives Account::Organization only for a payload of type
\* Organization and Account::User only for type User; for type Bot or
\* Mannequin it fails with AccountError::Unsupported carrying the decoded
\* account, and gives no handle.
C16_AccountTypeGate ==
    (apc = "done") =>
        /\ (aresult.ok /\ aresult.kind = "Organization")
                => (amet.status = 200 /\ amet.payload.type = "Organization")
        /\ (aresult.ok /\ aresult.kind = "User")
                => (amet.status = 200 /\ amet.payload.type = "User")
        /\ aresult.ok => aresult.kind \in {"Organization", "User"}
        /\ (AccountDecoded /\ amet.payload.type \in {"Organization", "User"})
                => (aresult.ok /\ aresult.kind = amet.payload.type)
        /\ (AccountDecoded /\ amet.payload.type \in {"Bot", "Mannequin"})
                => /\ ~aresult.ok
                   /\ aresult.error = "Unsupported"
                   /\ aresult.account = [type |-> amet.payload.type, login |-> amet.payload.login]

C16_Witness ==
    /\ apc = "done"
    /\ amet.status = 200
    /\ amet.payload.type = "Bot"
    /\ aresult.error = "Unsupported"
    /\ aresult.account.type = "Bot"

(***************************************************************************)
(* Claims about the absence conveniences                                   *)
(***************************************************************************)
GetSomeOps == {"try_get_some_reference", "try_get_some_branch", "try_get_some_tag"}

HasOps == {"try_has_reference", "try_has_branch", "try_has_tag", "try_has_comment"}

\* The reference a convenience asks the server for.
Asked ==
    IF sop \in {"try_get_some_reference", "try_has_reference"} THEN sarg
    ELSE IF sop \in {"try_get_some_branch", "try_has_branch"}
        THEN (IF IsOk(try_parse(sarg)) THEN sarg ELSE S_heads \o S_slash \o sarg)
    ELSE (IF IsOk(try_parse(sarg)) THEN sarg ELSE S_tags \o S_slash \o sarg)

\* The request was answered with a reference of another name than asked for.
OtherName ==
    /\ smet.status \in 200..299
    /\ smet.body.wellformed
    /\ sop # "try_has_comment"
    /\ ~EndsWith(smet.body.name, Asked)

\* The request failed otherwise than by absence.
OtherFailure == smet.status \in {0, 401, 403, 422, 500} \/ (smet.status \in 200..299 /\ ~smet.body.wellformed)

\* C17: the reference and comment conveniences answer a remote absence (404,
\* ReferenceError::Nothing, IssueCommentError::Nothing) with Ok(None) or
\* Ok(false), answer None or false for nothing else, and return every other
\* failure to the caller as an error.
C17_AbsenceOnly ==
    (somepc = "done" /\ sop \in GetSomeOps \cup HasOps) =>
        /\ (smet.status = 404 \/ OtherName) =>
                sanswer = (IF sop \in GetSomeOps THEN AnsNone ELSE AnsBool(FALSE))
        /\ OtherFailure => (~sanswer.ok /\ sanswer.error = "Client")
        /\ (smet = NoResponse) => (~sanswer.ok /\ sanswer.error = "Invalid")
        /\ (sanswer.ok /\ sanswer.value \in {"None", "false"}) =>
                (smet.status = 404 \/ OtherName)

C17_Witness ==
    /\ somepc = "done"
    /\ sop = "try_get_some_branch"
    /\ sarg = S_main
    /\ smet.status = 404
    /\ sanswer = AnsNone

\* C18: try_has_commit(sha) answers Ok(false) when the commit fetch is
\* answered with 404, Ok(true) when the commit exists, and fails only for
\* failures other than absence.
C18_AbsentCommitIsFalse ==
    (somepc = "done" /\ sop = "try_has_commit") =>
        /\ (smet.status = 404) => sanswer = AnsBool(FALSE)
        /\ (smet.status = 200 /\ smet.body.wellformed) => sanswer = AnsBool(TRUE)
        /\ ~sanswer.ok => smet.status # 404

(***************************************************************************)
(* Claims about tree entry modes                                           *)
(***************************************************************************)
\* The modes of the claim and their 6-digit octal strings.
ModeTable ==
    { <<33188, <<"1", "0", "0", "6", "4", "4">> >>,
      <<33261, <<"1", "0", "0", "7", "5", "5">> >>,
      <<16384, <<"0", "4", "0", "0", "0", "0">> >>,
      <<57344, <<"1", "6", "0", "0", "0", "0">> >>,
      <<40960, <<"1", "2", "0", "0", "0", "0">> >> }

\* Octal digits only, at least one, after at most one leading '+'.
ValidOctal(s) ==
    LET ds == IF Len(s) > 0 /\ s[1] = "+" THEN SubSeq(s, 2, Len(s)) ELSE s
    IN  Len(ds) > 0 /\ \A i \in 1..Len(ds) : ds[i] \in {"0", "1", "2", "3", "4", "5", "6", "7"}

\* C19: for each mode in {0o100644, 0o100755, 0o040000, 0o160000, 0o120000}
\* serialize_mode gives its zero-padded 6-digit octal string and
\* deserialize_mode of that string gives the mode back; deserialize_mode of
\* a string that is not valid octal fails, it does not give 0.
C19_ModeRoundTrip ==
    /\ \A row \in ModeTable :
        /\ (mode = row[1] /\ mpc \in {"serialized", "roundtrip"}) => mtext = row[2]
        /\ (mode = row[1] /\ mpc = "roundtrip") => mdecoded = [ok |-> TRUE, value |-> row[1]]
    /\ (mpc = "roundtrip" /\ mode < 8 * 8 * 8 * 8 * 8 * 8) => (Len(mtext) = 6 /\ mdecoded.value = mode)
    /\ (mpc \in {"roundtrip", "decoded"} /\ ~ValidOctal(mtext)) => ~mdecoded.ok

C19_Witness ==
    /\ mpc = "roundtrip"
    /\ mode = 16384
    /\ mtext = <<"0", "4", "0", "0", "0", "0">>
    /\ mdecoded = [ok |-> TRUE, value |-> 16384]

C19_WitnessMalformed ==
    /\ mpc = "decoded"
    /\ mtext = <<"7", "8">>
    /\ ~mdecoded.ok

(***************************************************************************)
(* Claims about the allow list                                             *)
(***************************************************************************)
Elements(list) == { list[i] : i \in 1..Len(list) }

\* Byte order of the pattern strings of the model: "a" < "ab" < "b".
PatternRank(p) == IF p = <<"a">> THEN 1 ELSE IF p = <<"a", "b">> THEN 2 ELSE 3

StrictlyAscending(list) ==
    \A i \in 1..(Len(list) - 1) : PatternRank(list[i]) < PatternRank(list[i + 1])

\* C20: try_add_allow_list(A) GETs the current object and PUTs one whose
\* verified and native are the fetched ones and whose patterns_allowed is
\* sorted ascending, without duplicates, and as a set the fetched list
\* united with A; try_set_allow_list(S) PUTs the sorted, deduplicated S with
\* the fetched verified and native.
C20_ReadModifyWrite ==
    \A w \in DOMAIN wput :
        wput[w].present =>
            /\ wgot[w].present
            /\ wput[w].verified = wgot[w].verified
            /\ wput[w].native = wgot[w].native
            /\ StrictlyAscending(wput[w].list)
            /\ Elements(wput[w].list) =
                    (IF wop[w] = "try_add_allow_list"
                     THEN Elements(wgot[w].list) \cup Elements(warg[w])
                     ELSE Elements(warg[w]))
            /\ (wres[w] = "ok") => wpc[w] = "done"

C20_Witness ==
    /\ wpc[1] = "done"
    /\ wres[1] = "ok"
    /\ wop[1] = "try_add_allow_list"
    /\ wgot[1].list = << <<"b">>, <<"a">> >>
    /\ warg[1] = << <<"a">> >>
    /\ wput[1].list = << <<"a">>, <<"b">> >>
    /\ remote = wput[1]

\* Writer w's PUT is answered in this step.
PutAnswered(w) == wpc[w] = "fetched" /\ wpc'[w] = "done" /\ wres'[w] # "error"

C21_LastPutWins ==
    \A w \in DOMAIN wpc :
        PutAnswered(w) => wres'[w] = "ok" /\ remote' = wput'[w]

C21_NeverRejected == \A w \in DOMAIN wres : wres[w] # "conflict"

\* C21: two interleaved try_add_allow_list calls can lose an update: every
\* answered PUT is accepted, stale or not, and the remote object is then
\* exactly that PUT's body, so the later of two writers that fetched the
\* same object erases what the earlier one added.
C21_LostUpdate == [](C21_NeverRejected) /\ [][C21_LastPutWins]_vars

\* Both writers fetched the same object, both added, both succeeded; the
\* remote object is writer 2's body and lacks what writer 1 added.
C21_Witness ==
    /\ wop[1] = "try_add_allow_list"
    /\ wop[2] = "try_add_allow_list"
    /\ wres[1] = "ok"
    /\ wres[2] = "ok"
    /\ wgot[1] = wgot[2]
    /\ remote = wput[2]
    /\ wput[1] # wput[2]
    /\ ~(Elements(warg[1]) \subseteq Elements(remote.list))
    /\ Elements(warg[2]) \subseteq Elements(remote.list)

(***************************************************************************)
(* Claims about handles                                                    *)
(***************************************************************************)
SetProperties == hop = "try_set_properties"

\* The receiver's owning Arc is alive: its weak self-reference upgrades.
ReceiverOwned == hrecv.handle.weak \in DOMAIN heap /\ heap[hrecv.handle.weak].state = "alive"

C23_UpgradeNeverFails == hop = "get_reference" => hres.kind = "arc"

(***************************************************************************)
(* Claims about the issue and comment operations                           *)
(***************************************************************************)
IsNumberSegment(seg) == Len(seg) > 0 /\ \A i \in 1..Len(seg) : IsDigit(seg[i])

\* repos/{owner}/{repo}/issues[/{number}][/assignees|/comments] or
\* repos/{owner}/{repo}/issues/comments/{id}
InGrammar(path) ==
    LET segs == Split(path)
        n == Len(segs)
    IN  /\ n >= 4
        /\ segs[1] = <<"repos">>
        /\ Len(segs[2]) = 1
        /\ Len(segs[3]) = 1
        /\ segs[4] = <<"issues">>
        /\ \/ n = 4
           \/ n = 5 /\ (IsNumberSegment(segs[5]) \/ segs[5] \in { <<"assignees">>, <<"comments">> })
           \/ n = 6 /\ IsNumberSegment(segs[5]) /\ segs[6] \in { <<"assignees">>, <<"comments">> }
           \/ n = 6 /\ segs[5] = <<"comments">> /\ IsNumberSegment(segs[6])

\* C24: every request of the issue and comment operations has a path of the
\* grammar, and listing the comments of issue n requests the path that
\* creating a comment on issue n posts to.
C24_PathsInGrammar ==
    \A i \in 1..Len(treqs) :
        /\ InGrammar(treqs[i].path)
        /\ top \in {"try_get_all_issue_comments", "try_has_comments"} =>
                treqs[i].path = create_comment_path(tissue)

\* C28: try_has_comments returns Ok(true) exactly when the issue has at
\* least one comment, and Ok(false) when it has none.
C28_HasCommentsIffAny ==
    (top = "try_has_comments" /\ tres.ok) => (tres.value = (tcount > 0))

(***************************************************************************)
(* Claims about try_get_branch                                             *)
(***************************************************************************)
\* The lookup try_get_branch made: try_fetch of the candidate it resolved.
BranchLookup == try_fetch(Display(BranchCandidate(result.arg)), response)

\* C25: try_get_branch returns the reference only when it is a Branch, and
\* fails with InvalidBranch exactly when the lookup found a reference of
\* another kind; a failed lookup (Unauthorized, Unhandled, Unavailable) is
\* returned as its own error, not as InvalidBranch.
C25_InvalidBranchOnlyForOtherKind ==
    (result.op = "try_get_branch" /\ IsOk(BranchCandidate(result.arg))) =>
        /\ result.ok => result.ref.kind = "Branch"
        /\ (result.error = "InvalidBranch") <=> (BranchLookup.ok /\ BranchLookup.ref.kind # "Branch")

(***************************************************************************)
(* Claims about Tree::try_create_with_base                                 *)
(***************************************************************************)
\* The three requests of a complete run, in order.
FullRun ==
    << [method |-> "GET", resource |-> "git/commits", sha |-> bbase, recursive |-> FALSE,
        base_tree |-> "", tree |-> <<>>],
       [method |-> "GET", resource |-> "git/trees", sha |-> ctree[bbase], recursive |-> FALSE,
        base_tree |-> "", tree |-> <<>>],
       [method |-> "POST", resource |-> "git/trees", sha |-> "", recursive |-> FALSE,
        base_tree |-> ctree[bbase], tree |-> bentries] >>

\* C26: the requests are GET base commit, GET its tree (not recursive), POST
\* git/trees with base_tree the sha of the fetched tree and tree the given
\* entries, in that order; when a GET fails there is no POST and no tree is
\* created.
C26_RequestOrder ==
    bpc # "off" =>
        /\ Len(breqs) <= 3
        /\ breqs = SubSeq(FullRun, 1, Len(breqs))
        /\ Len(breqs) = 3 => breqs[3].base_tree = btree
        /\ bres.ok => Len(breqs) = 3
        /\ (bpc = "done" /\ Len(breqs) < 3) => (~bres.ok /\ strees = TreeShas)
        /\ CreatedTree \in strees => Len(breqs) = 3

C26_Witness ==
    /\ bpc = "done"
    /\ bres = [ok |-> TRUE, sha |-> "t3", error |-> ""]
    /\ Len(breqs) = 3
    /\ breqs[3].base_tree = "t2"
    /\ breqs[3].tree = <<"e1", "e2">>
    /\ "t3" \in strees

\* A GET failed: the run ended after two requests, no POST among them.
C26_WitnessFailedGet ==
    /\ bpc = "done"
    /\ Len(breqs) = 2
    /\ ~bres.ok
    /\ strees = TreeShas

(***************************************************************************)
(* Claims about local validation                                           *)
(***************************************************************************)
FailsToParse == ~IsOk(try_parse(result.arg))

C27_NoRequest ==
    /\ (result.op \in {"try_get_reference", "try_create_reference"} /\ FailsToParse) =>
            (result.error = "Invalid" /\ gets = <<>> /\ response = NoResponse)
    /\ (result.op = "try_delete_branch" /\ handle.kind # "Branch") =>
            (result.error = "InvalidBranch" /\ gets = <<>> /\ response = NoResponse)
    /\ (result.op = "try_delete_tag" /\ handle.kind # "Tag") =>
            (result.error = "InvalidTag" /\ gets = <<>> /\ response = NoResponse)

\* The step is an operation that returns one of the local failures.
FailsLocally ==
    /\ result.op = "none"
    /\ result'.op # "none"
    /\ result'.error \in {"Invalid", "InvalidBranch", "InvalidTag"}

C27_RemoteUnchanged == FailsLocally => UNCHANGED <<refs, tagobjs, commits>>

\* C27: an operation that fails its local validation issues no request and
\* leaves the remote unchanged: try_fetch and try_create of a string that
\* does not parse return Invalid, try_delete_branch (try_delete_tag) of a
\* reference that is not a Branch (Tag) returns InvalidBranch (InvalidTag).
C27_LocalValidation == [](C27_NoRequest) /\ [][C27_RemoteUnchanged]_vars

C27_Witness ==
    /\ result.op = "try_delete_branch"
    /\ handle.kind = "Tag"
    /\ result.error = "InvalidBranch"
    /\ gets = <<>>
    /\ RefName(Display(handle)) \in Held

\* try_create of a string that does not parse, with refs on the server.
C27_WitnessCreate ==
    /\ result.op = "try_create_reference"
    /\ result.arg = S_foo
    /\ result.error = "Invalid"
    /\ gets = <<>>
    /\ Held # {}

(***************************************************************************)
(* Claims about the length of a resolution                                 *)
(***************************************************************************)
IsTagGet(r) == r.resource = "git/tags"

TagGets == SelectSeq(gets, IsTagGet)

C29_TagGetsBounded ==
    /\ Len(TagGets) <= Cardinality(DOMAIN tagobjs) + 1
    /\ \A i, j \in 1..Len(TagGets) : TagGets[i].path = TagGets[j].path => i = j

\* C29: try_get_commit terminates when its requests are answered: with N tag
\* shas on the server a resolution issues at most N + 1 GETs of
\* git/tags/{sha}, never two of the same sha, and then returns.
C29_Terminates == [](C29_TagGetsBounded) /\ ((pc = "loop") ~> (pc = "idle" /\ result.op = "try_get_commit"))

\* A cycle through every tag of the server: one GET per tag, then Circular.
C29_Witness ==
    /\ result.op = "try_get_commit"
    /\ result.error = "Circular"
    /\ Len(TagGets) = Cardinality(DOMAIN tagobjs)
    /\ ~faulted

(***************************************************************************)
(* Claims about the members of a team                                      *)
(***************************************************************************)
\* C30: try_has_team_member(m) returns true exactly when m is a member of
\* the team on the server, whatever the size of the team.
C30_HasMemberIffMember ==
    (teamop = "try_has_team_member" /\ teamres.ok) =>
        (teamres.value <=> \E i \in 1..Len(roster) : roster[i] = teamarg)

====
